---- MODULE Spec2Model ----
(***************************************************************************)
(* A model of the record-decoding and columnar-serialisation pipeline of   *)
(* the US Historical Climate Network downloader:                           *)
(*   - reading/daily.rs, reading/monthly.rs : the fixed-width decoders     *)
(*   - deserialise.rs                       : one task per file, joined    *)
(*   - parquet/daily.rs, parquet/monthly.rs : the chunked batch writers    *)
(* Each part has its own specification (SpecDaily, SpecMonthly, ...); the  *)
(* variables of the parts a specification does not run stay at their       *)
(* initial values.                                                         *)
(***************************************************************************)
EXTENDS Integers, Sequences, FiniteSets, TLC

VARIABLES
    \* ---- save_daily (parquet/daily.rs) ----
    d_readings,            \* the argument `readings`
    d_pc,                  \* position in save_daily
    d_i,                   \* index of the current reading (1-based)
    d_day_index,           \* day_index of the inner loop (0-based, as in the code)
    d_builders,            \* the seven column builders
    d_current_batch_rows,  \* current_batch_rows
    d_progress_counter,    \* progress_counter
    d_total_actual_rows,   \* total_actual_rows
    d_file,                \* the batches appended to the writer, in order
    d_appended,            \* history: the rows appended by the expansion loop
    d_failed,              \* history: has creating, appending or closing failed?
    \* ---- save_monthly (parquet/monthly.rs) ----
    m_readings,            \* the argument `readings`
    m_pc,                  \* position in save_monthly
    m_total_rows,          \* total_rows
    m_rows_processed,      \* rows_processed
    m_batch_size,          \* batch_size of the current batch
    m_rows_in_batch,       \* rows_in_batch
    m_cols,                \* the eleven column vectors of the current batch
    m_r,                   \* index of the reading of the `for r` loop (0-based)
    m_month,               \* month of the inner loop (1..12)
    m_file,                \* the batches appended to the writer, in order
    m_failed,              \* history: has creating, appending or closing failed?
    \* ---- from_line (reading/daily.rs, reading/monthly.rs) ----
    f_frame,               \* which decoder is called: "daily" or "monthly"
    f_line,                \* the argument `line`, a sequence of characters
    f_props,               \* the argument `file_properties` (monthly)
    f_result,              \* what the call produced; NULL before the call
    \* ---- deserialise (deserialise.rs) ----
    s_dir_ok,              \* does read_dir and the listing succeed?
    s_files,               \* the files of the directory, in listing order
    s_pc,                  \* position of deserialise
    s_task,                \* per file: its task's position, line index and readings
    s_lock,                \* holder of the progress bar's mutex: 0, or a task, or "main"
    s_progress,            \* position of the progress bar
    s_reported,            \* number of eprintln! reports
    s_readings,            \* the Vec deserialise returns
    \* ---- inject_coords (cli/command/daily.rs, cli/command/monthly.rs) ----
    c_frame,               \* which function is called: "daily" or "monthly"
    c_stations,            \* the argument `stations`
    c_readings,            \* the argument `readings`
    c_pc,                  \* position in inject_coords
    c_lookup,              \* lookup
    c_out,                 \* readings_with_coords
    \* ---- extract_ushcn_stations, extract_ghcn_stations (cli/command/stations.rs) ----
    g_mode,                \* which function is called: "ushcn" or "ghcn"
    g_file,                \* the file: can it be opened, and its lines
    g_pc,                  \* position in the function
    g_stations,            \* stations
    \* ---- FileProperties::from_file (reading/file_properties.rs, reading/monthly.rs) ----
    p_def,                 \* which definition is called: "file_properties" or "monthly"
    p_parts,               \* the segments the file name is put together from
    p_file_name,           \* file_name
    p_result,              \* the value returned, NULL before the call
    \* ---- download_archive_cached (cli/command/daily.rs), download_tar_with_progress ----
    k_chunks,              \* the number of chunks of the archive on the server
    k_files,               \* the archive file of each cache directory
    k_completed,           \* has a download into the directory returned Ok?
    k_runs,                \* the number of runs of the daily command started
    k_dir,                 \* cache_dir of the current run
    k_pc,                  \* position in download_archive_cached
    k_hit                  \* the current run returned the cached path

d_vars == <<d_readings, d_pc, d_i, d_day_index, d_builders, d_current_batch_rows,
            d_progress_counter, d_total_actual_rows, d_file, d_appended, d_failed>>

m_vars == <<m_readings, m_pc, m_total_rows, m_rows_processed, m_batch_size, m_rows_in_batch,
            m_cols, m_r, m_month, m_file, m_failed>>

f_vars == <<f_frame, f_line, f_props, f_result>>

s_vars == <<s_dir_ok, s_files, s_pc, s_task, s_lock, s_progress, s_reported, s_readings>>

c_vars == <<c_frame, c_stations, c_readings, c_pc, c_lookup, c_out>>

g_vars == <<g_mode, g_file, g_pc, g_stations>>

p_vars == <<p_def, p_parts, p_file_name, p_result>>

k_vars == <<k_chunks, k_files, k_completed, k_runs, k_dir, k_pc, k_hit>>

vars == <<d_vars, m_vars, f_vars, s_vars, c_vars, g_vars, p_vars, k_vars>>

\* the variables of the other parts, which the actions of a part leave alone
not_d_vars == <<m_vars, f_vars, s_vars, c_vars, g_vars, p_vars, k_vars>>
not_m_vars == <<d_vars, f_vars, s_vars, c_vars, g_vars, p_vars, k_vars>>
not_f_vars == <<d_vars, m_vars, s_vars, c_vars, g_vars, p_vars, k_vars>>
not_s_vars == <<d_vars, m_vars, f_vars, c_vars, g_vars, p_vars, k_vars>>
not_c_vars == <<d_vars, m_vars, f_vars, s_vars, g_vars, p_vars, k_vars>>
not_g_vars == <<d_vars, m_vars, f_vars, s_vars, c_vars, p_vars, k_vars>>
not_p_vars == <<d_vars, m_vars, f_vars, s_vars, c_vars, g_vars, k_vars>>
not_k_vars == <<d_vars, m_vars, f_vars, s_vars, c_vars, g_vars, p_vars>>

\* Option<T>: None, and the null cell of a nullable column, is NULL; Some(x) of
\* an integer x is a record, as is every f32 value (Val below), so that TLC can
\* compare any option with NULL.
NULL == [none |-> TRUE]
Some(x) == [some |-> x]

\* ------------------------------------------------------------------------
\* Bounds of the model
\* ------------------------------------------------------------------------
\* The batch threshold. The code's value is 100000 (parquet/daily.rs:20,
\* parquet/monthly.rs:20); the model runs the same code with a small threshold
\* that, like 100000, is not a divisor of 12.
chunk_size == 5
MaxDailyReadings == 3
MaxMonthlyReadings == 2
MaxFiles == 2
MaxStations == 2
MaxInjectReadings == 2
MaxStationLines == 2
MaxParts == 4
MaxRuns == 3
MaxChunks == 2

\* ------------------------------------------------------------------------
\* Calendar (chrono::NaiveDate)
\* ------------------------------------------------------------------------
IsLeap(y) == (y % 4 = 0 /\ y % 100 # 0) \/ y % 400 = 0

DaysInMonth(y, m) ==
    IF m \in {4, 6, 9, 11} THEN 30
    ELSE IF m = 2 THEN (IF IsLeap(y) THEN 29 ELSE 28)
    ELSE 31

\* NaiveDate::from_ymd_opt(y, m, d).is_some()
ValidDate(y, m, d) == m \in 1..12 /\ d >= 1 /\ d <= DaysInMonth(y, m)

RECURSIVE DaysBeforeMonth(_, _)
DaysBeforeMonth(y, m) == IF m <= 1 THEN 0 ELSE DaysBeforeMonth(y, m - 1) + DaysInMonth(y, m - 1)

\* NaiveDate::num_days_from_ce(): 0001-01-01 is day 1
NumDaysFromCe(y, m, d) ==
    365 * (y - 1) + ((y - 1) \div 4) - ((y - 1) \div 100) + ((y - 1) \div 400)
        + DaysBeforeMonth(y, m) + d

\* the Date32 value of a valid date: days since 1970-01-01
Date32(y, m, d) == NumDaysFromCe(y, m, d) - NumDaysFromCe(1970, 1, 1)

\* ------------------------------------------------------------------------
\* Readings (reading/daily.rs, reading/file_properties.rs)
\* ------------------------------------------------------------------------
\* An f32 value is kept exactly, as the integer read and the divisor applied.
Val(num, den) == [num |-> num, den |-> den]

num_chunks_daily == 31

\* DailyReading
MkDaily(id, lat, lon, year, month, element, dataset, values) ==
    [id |-> id, lat |-> lat, lon |-> lon, year |-> year, month |-> month,
     properties |-> [dataset |-> dataset, element |-> element], values |-> values]

\* values with a measurement on the days of `days` and None on the others
DailyValues(days) ==
    [k \in 1..num_chunks_daily |-> IF k \in days THEN Val(100 + k, 10) ELSE NULL]

\* The readings save_daily is run on: months of 28, 29 and 30 days, with
\* measurements on days that exist in the month and on days that do not
\* (daily readings carry Dataset::Unknown, file_properties.rs:50-55).
DailyInputs ==
    { MkDaily("USC00011084", NULL, NULL, 2023, Some(2), "Tmax", "Unknown", DailyValues(s)) :
          s \in {{1, 2, 3}, {29, 30, 31}} }
    \cup
    { MkDaily("USC00011084", NULL, NULL, 2024, Some(2), "Tmin", "Unknown", DailyValues(s)) :
          s \in {{}, {29, 30, 31}} }
    \cup
    { MkDaily("USC00437054", Val(444200, 10000), Val(-728150, 10000), 2024, Some(4), "Prcp",
              "Unknown", DailyValues(s)) : s \in {{1, 2, 3}, {29, 30, 31}} }

SeqsUpTo(S, n) == UNION { [1..k -> S] : k \in 0..n }

\* ------------------------------------------------------------------------
\* save_daily (parquet/daily.rs)
\* ------------------------------------------------------------------------
element_to_string(element) ==
    CASE element = "Tmax" -> "TMAX"
      [] element = "Tmin" -> "TMIN"
      [] element = "Prcp" -> "PRCP"
      [] OTHER -> "UNKNOWN"

dataset_to_string(dataset) ==
    CASE dataset = "Raw" -> "RAW"
      [] dataset = "Tob" -> "TOB"
      [] dataset = "Fls52" -> "FLS52"
      [] OTHER -> "UNKNOWN"

DailyColumns == {"id", "date", "element", "dataset", "value", "lat", "lon"}

EmptyBuilders == [c \in DailyColumns |-> <<>>]

\* the number of Some slots of a list of readings (lines 23-30)
RECURSIVE CountSome(_)
CountSome(values) ==
    IF values = <<>> THEN 0
    ELSE (IF Head(values) # NULL THEN 1 ELSE 0) + CountSome(Tail(values))

RECURSIVE TotalActualRows(_)
TotalActualRows(readings) ==
    IF readings = <<>> THEN 0
    ELSE CountSome(Head(readings).values) + TotalActualRows(Tail(readings))

\* the row the loop body appends for slot day_index of a reading (lines 78-91)
DailyRow(reading, day_index) ==
    [id      |-> reading.id,
     date    |-> Date32(reading.year, reading.month.some, day_index + 1),
     element |-> element_to_string(reading.properties.element),
     dataset |-> dataset_to_string(reading.properties.dataset),
     value   |-> reading.values[day_index + 1],
     lat     |-> reading.lat,
     lon     |-> reading.lon]

\* mutant: the `if let Some(value)` test is lost
DailyEmits_NoSomeTest(reading, day_index) ==
    ValidDate(reading.year, reading.month.some, day_index + 1)

\* does the loop body append a row for this slot? (lines 77 and 81)
DailyEmits(reading, day_index) ==
    /\ reading.values[day_index + 1] # NULL
    /\ ValidDate(reading.year, reading.month.some, day_index + 1)

\* the seven append_value / append_option calls (lines 85-91)
AppendRow(builders, row) == [c \in DailyColumns |-> Append(builders[c], row[c])]

\* mutant: the threshold test is off by one
BatchFull_OffByOne(rows) == rows > chunk_size

\* the batch threshold test (line 102)
BatchFull(rows) == rows >= chunk_size

DailyInit ==
    /\ d_readings \in SeqsUpTo(DailyInputs, MaxDailyReadings)
    /\ d_pc = "start"
    /\ d_i = 1
    /\ d_day_index = 0
    /\ d_builders = EmptyBuilders
    /\ d_current_batch_rows = 0
    /\ d_progress_counter = 0
    /\ d_total_actual_rows = 0
    /\ d_file = <<>>
    /\ d_appended = <<>>
    /\ d_failed = FALSE

\* lines 20-66: count the rows, create the file and the writer, allocate the
\* builders. File::create or ArrowWriter::try_new may fail.
DailyCreate ==
    /\ d_pc = "start"
    /\ d_total_actual_rows' = TotalActualRows(d_readings)
    /\ \E ok \in BOOLEAN : d_pc' = (IF ok THEN "loop" ELSE "error") /\ d_failed' = ~ok
    /\ UNCHANGED <<d_readings, d_i, d_day_index, d_builders, d_current_batch_rows,
                   d_progress_counter, d_file, d_appended>>
    /\ UNCHANGED not_d_vars

\* the position after slot (i, day_index)
DailyNextI(i, day_index) == IF day_index + 1 = num_chunks_daily THEN i + 1 ELSE i
DailyNextDay(day_index) == IF day_index + 1 = num_chunks_daily THEN 0 ELSE day_index + 1

\* lines 68-100: one iteration of the inner loop, up to the threshold test
DailySlot ==
    /\ d_pc = "loop"
    /\ d_i <= Len(d_readings)
    /\ LET reading == d_readings[d_i] IN
       IF reading.month = NULL
       THEN \* reading.month.unwrap() (line 70)
            /\ d_pc' = "panic"
            /\ UNCHANGED <<d_i, d_day_index, d_builders, d_current_batch_rows,
                           d_progress_counter, d_appended>>
       ELSE IF DailyEmits(reading, d_day_index)
       THEN /\ d_builders' = AppendRow(d_builders, DailyRow(reading, d_day_index))
            /\ d_appended' = Append(d_appended, DailyRow(reading, d_day_index))
            /\ d_current_batch_rows' = d_current_batch_rows + 1
            /\ d_progress_counter' = d_progress_counter + 1
            /\ d_pc' = IF BatchFull(d_current_batch_rows + 1) THEN "flush" ELSE "loop"
            /\ d_i' = DailyNextI(d_i, d_day_index)
            /\ d_day_index' = DailyNextDay(d_day_index)
       ELSE /\ d_i' = DailyNextI(d_i, d_day_index)
            /\ d_day_index' = DailyNextDay(d_day_index)
            /\ UNCHANGED <<d_pc, d_builders, d_current_batch_rows, d_progress_counter,
                           d_appended>>
    /\ UNCHANGED <<d_readings, d_total_actual_rows, d_file, d_failed>>
    /\ UNCHANGED not_d_vars

\* mutant: the builders keep their rows after the batch is written
write_batch_optimized_NoReset(next_pc) ==
    /\ UNCHANGED d_builders
    /\ \/ /\ d_file' = Append(d_file, d_builders)
          /\ d_pc' = next_pc
          /\ UNCHANGED d_failed
       \/ /\ d_pc' = "error"
          /\ d_failed' = TRUE
          /\ UNCHANGED d_file

\* write_batch_optimized (lines 125-159): finish() hands over the builders'
\* contents and leaves them empty; writer.write appends the batch or fails.
write_batch_optimized(next_pc) ==
    /\ d_builders' = EmptyBuilders
    /\ \/ /\ d_file' = Append(d_file, d_builders)
          /\ d_pc' = next_pc
          /\ UNCHANGED d_failed
       \/ /\ d_pc' = "error"
          /\ d_failed' = TRUE
          /\ UNCHANGED d_file

\* lines 102-107: the batch is full
DailyFlush ==
    /\ d_pc = "flush"
    /\ write_batch_optimized("loop")
    \* line 106 is not reached when the write fails
    /\ d_current_batch_rows' = IF d_pc' = "error" THEN d_current_batch_rows ELSE 0
    /\ UNCHANGED <<d_readings, d_i, d_day_index, d_progress_counter,
                   d_total_actual_rows, d_appended>>
    /\ UNCHANGED not_d_vars

\* lines 113-118: the remaining rows
DailyFinal ==
    /\ d_pc = "loop"
    /\ d_i > Len(d_readings)
    /\ IF d_current_batch_rows > 0
       THEN write_batch_optimized("close")
       ELSE d_pc' = "close" /\ UNCHANGED <<d_builders, d_file, d_failed>>
    /\ UNCHANGED <<d_readings, d_i, d_day_index, d_current_batch_rows,
                   d_progress_counter, d_total_actual_rows, d_appended>>
    /\ UNCHANGED not_d_vars

\* lines 120-122: writer.close() succeeds or fails
DailyClose ==
    /\ d_pc = "close"
    /\ \E ok \in BOOLEAN : d_pc' = (IF ok THEN "done" ELSE "error") /\ d_failed' = ~ok
    /\ UNCHANGED <<d_readings, d_i, d_day_index, d_builders, d_current_batch_rows,
                   d_progress_counter, d_total_actual_rows, d_file, d_appended>>
    /\ UNCHANGED not_d_vars

DailyNext == DailyCreate \/ DailySlot \/ DailyFlush \/ DailyFinal \/ DailyClose

\* ---- what is in the file, row by row ----
\* the rows of a batch (a record of equally long column arrays)
BatchRows(batch) ==
    [k \in 1..Len(batch["id"]) |-> [c \in DOMAIN batch |-> batch[c][k]]]

RECURSIVE Concat(_)
Concat(seqs) == IF seqs = <<>> THEN <<>> ELSE Head(seqs) \o Concat(Tail(seqs))

\* the rows of a file: its batches' rows in append order
FileRows(file) == Concat([b \in 1..Len(file) |-> BatchRows(file[b])])

\* the rows still held in the builders
BuilderRows == BatchRows(d_builders)

\* the rows the expansion of one reading appends, from slot day_index on
RECURSIVE ReadingExpansion(_, _)
ReadingExpansion(reading, day_index) ==
    IF day_index >= num_chunks_daily THEN <<>>
    ELSE (IF DailyEmits(reading, day_index) THEN <<DailyRow(reading, day_index)>> ELSE <<>>)
         \o ReadingExpansion(reading, day_index + 1)

\* readings in input order, slots in increasing day index
DailyExpansion(readings) ==
    Concat([i \in 1..Len(readings) |-> ReadingExpansion(readings[i], 0)])

DailyRunning == d_pc \in {"loop", "flush", "close", "done"}

\* ------------------------------------------------------------------------
\* Claims about save_daily
\* ------------------------------------------------------------------------

\* C2 (as claimed): when save_daily returns Ok, the number of rows written over
\* all batches equals the number of Some value slots of the readings.
C2_RowsEqualSomeSlots ==
    d_pc = "done" => Len(FileRows(d_file)) = TotalActualRows(d_readings)

\* C7 (as claimed): when save_daily returns Ok, every Some slot whose (year,
\* month, day) is no calendar date has its row in the file, with a null date.
C7_InvalidDateRowKept ==
    d_pc = "done" =>
        \A i \in 1..Len(d_readings) : \A k \in 0..(num_chunks_daily - 1) :
            LET reading == d_readings[i] IN
            (reading.values[k + 1] # NULL /\ ~ValidDate(reading.year, reading.month.some, k + 1))
            => \E b \in 1..Len(d_file) : \E r \in 1..Len(d_file[b]["id"]) :
                   /\ d_file[b]["id"][r] = reading.id
                   /\ d_file[b]["value"][r] = reading.values[k + 1]
                   /\ d_file[b]["element"][r] = element_to_string(reading.properties.element)
                   /\ d_file[b]["date"][r] = NULL

\* the batches appended so far have 1..chunk_size rows in every column, and all
\* but the final partial batch exactly chunk_size
BatchSizesOk ==
    \A b \in 1..Len(d_file) : \A c \in DailyColumns :
        /\ Len(d_file[b][c]) >= 1
        /\ Len(d_file[b][c]) <= chunk_size
        /\ (b < Len(d_file) \/ d_pc \in {"loop", "flush"}) => Len(d_file[b][c]) = chunk_size

\* C8 (as claimed): at every point of the write, every builder holds
\* current_batch_rows rows, at most chunk_size; the count is chunk_size only
\* where the batch is about to be appended; the batch sizes are as stated.
C8_Original ==
    DailyRunning =>
        /\ \A c \in DailyColumns : Len(d_builders[c]) = d_current_batch_rows
        /\ d_current_batch_rows <= chunk_size
        /\ (d_current_batch_rows = chunk_size) <=> (d_pc = "flush")
        /\ BatchSizesOk

\* C8 (amended): the same, except that the builders hold current_batch_rows
\* rows only up to the write of the final partial batch; after it the builders
\* are empty and current_batch_rows keeps the size of that batch.
C8_BatchBound ==
    DailyRunning =>
        /\ d_pc \in {"loop", "flush"} =>
               \A c \in DailyColumns : Len(d_builders[c]) = d_current_batch_rows
        /\ d_pc \in {"close", "done"} =>
               /\ \A c \in DailyColumns : Len(d_builders[c]) = 0
               /\ d_current_batch_rows > 0 =>
                      Len(d_file[Len(d_file)]["id"]) = d_current_batch_rows
        /\ d_current_batch_rows <= chunk_size
        /\ (d_current_batch_rows = chunk_size) <=> (d_pc = "flush")
        /\ BatchSizesOk

C8_Witness ==
    /\ d_pc = "done"
    /\ Len(d_file) = 2
    /\ Len(d_file[1]["id"]) = chunk_size
    /\ Len(d_file[2]["id"]) < chunk_size

\* C9: while save_daily runs, the batches appended so far followed by the rows
\* in the builders are the rows of the expansion so far, in order; once the
\* final batch is written, the file's rows are exactly the expansion of the
\* readings (input order, increasing day index) and the builders are empty.
C9_ChunkingKeepsRows ==
    DailyRunning =>
        /\ FileRows(d_file) \o BuilderRows = d_appended
        /\ d_pc \in {"close", "done"} =>
               /\ FileRows(d_file) = DailyExpansion(d_readings)
               /\ BuilderRows = <<>>

C9_Witness ==
    /\ d_pc = "close"
    /\ Len(d_file) >= 2
    /\ Len(FileRows(d_file)) > chunk_size
    /\ Len(FileRows(d_file)) % chunk_size # 0
    /\ \E i \in 1..Len(d_readings) : d_readings[i].id # d_readings[1].id

\* C10: every row in the file or in the builders has a non-null value and is
\* the row of a Some slot of one of the readings, with that reading's id,
\* element tag and dataset tag.
C10_RowsFromSomeSlots ==
    \A row \in {FileRows(d_file)[k] : k \in 1..Len(FileRows(d_file))}
               \cup {BuilderRows[k] : k \in 1..Len(BuilderRows)} :
        /\ row.value # NULL
        /\ \E i \in 1..Len(d_readings) : \E k \in 1..num_chunks_daily :
               /\ d_readings[i].values[k] # NULL
               /\ row.value = d_readings[i].values[k]
               /\ row.id = d_readings[i].id
               /\ row.element = element_to_string(d_readings[i].properties.element)
               /\ row.dataset = dataset_to_string(d_readings[i].properties.dataset)

C10_Witness ==
    /\ d_pc = "done"
    /\ Len(d_file) >= 1
    /\ \E i \in 1..Len(d_readings) : CountSome(d_readings[i].values) = 0
    /\ \E b \in 1..Len(d_file) : \E r \in 1..Len(d_file[b]["id"]) :
           d_file[b]["element"][r] = "PRCP"

\* ------------------------------------------------------------------------
\* save_monthly (parquet/monthly.rs)
\* ------------------------------------------------------------------------
months_per_year == 12

\* MonthlyReading (reading/monthly.rs)
MkMonthly(id, year, element, dataset, values) ==
    [id |-> id, year |-> year, element |-> element, dataset |-> dataset, values |-> values]

MonthlyElements == {"Max", "Min", "Avg", "Unknown"}
MonthlyDatasets == {"Fls52", "Raw", "Tob", "Unknown"}

\* twelve values in hundredths, None in March and December
MonthlyValues(base) ==
    [k \in 1..months_per_year |-> IF k \in {3, 12} THEN NULL ELSE Val(base + k, 100)]

\* The readings save_monthly is run on: every (element, dataset) pair, for one
\* station and year per element.
MonthlyInputs ==
    { MkMonthly("USH00489615", 1894, "Max", ds, MonthlyValues(500)) : ds \in MonthlyDatasets }
    \cup { MkMonthly("USH00457267", 1892, "Min", ds, MonthlyValues(-200)) : ds \in MonthlyDatasets }
    \cup { MkMonthly("USH00297610", 2000, "Avg", ds, MonthlyValues(1200)) : ds \in MonthlyDatasets }
    \cup { MkMonthly("USH00118916", 1999, "Unknown", ds, MonthlyValues(0)) : ds \in MonthlyDatasets }

ValueColumns ==
    {"max_raw", "max_tob", "max_fls52", "min_raw", "min_tob", "min_fls52",
     "avg_raw", "avg_tob", "avg_fls52"}

MonthlyColumns == {"id", "date"} \cup ValueColumns

EmptyColumns == [c \in MonthlyColumns |-> <<>>]

\* a nested match whose `_` arm of the dataset falls into the Raw column
TargetColumn_UnknownAsRaw(element, dataset) ==
    CASE element = "Max" /\ dataset = "Tob"   -> "max_tob"
      [] element = "Max" /\ dataset = "Fls52" -> "max_fls52"
      [] element = "Max"                      -> "max_raw"
      [] element = "Min" /\ dataset = "Tob"   -> "min_tob"
      [] element = "Min" /\ dataset = "Fls52" -> "min_fls52"
      [] element = "Min"                      -> "min_raw"
      [] element = "Avg" /\ dataset = "Tob"   -> "avg_tob"
      [] element = "Avg" /\ dataset = "Fls52" -> "avg_fls52"
      [] element = "Avg"                      -> "avg_raw"
      [] OTHER -> "none"

\* the column the nested match (lines 93-243) pushes the value to; "none" for
\* the arms that push None to all nine
TargetColumn(element, dataset) ==
    CASE element = "Max" /\ dataset = "Raw"   -> "max_raw"
      [] element = "Max" /\ dataset = "Tob"   -> "max_tob"
      [] element = "Max" /\ dataset = "Fls52" -> "max_fls52"
      [] element = "Min" /\ dataset = "Raw"   -> "min_raw"
      [] element = "Min" /\ dataset = "Tob"   -> "min_tob"
      [] element = "Min" /\ dataset = "Fls52" -> "min_fls52"
      [] element = "Avg" /\ dataset = "Raw"   -> "avg_raw"
      [] element = "Avg" /\ dataset = "Tob"   -> "avg_tob"
      [] element = "Avg" /\ dataset = "Fls52" -> "avg_fls52"
      [] OTHER -> "none"

\* push_value_or_none (lines 312-318): what is pushed for values.get(index)
push_value_or_none(values, index) ==
    IF index + 1 \in DOMAIN values THEN values[index + 1] ELSE NULL

\* the date cell (lines 78-90)
MonthlyDate(year, month) ==
    IF ValidDate(year, month, 1) THEN Some(Date32(year, month, 1)) ELSE NULL

\* an inner loop whose arm for an Unknown element pushes to no measurement column
MonthlyRow_UnknownPushesNothing(r, month) ==
    [c \in (IF r.element = "Unknown" THEN {"id", "date"} ELSE MonthlyColumns) |->
        IF c = "id" THEN r.id
        ELSE IF c = "date" THEN MonthlyDate(r.year, month)
        ELSE IF c = TargetColumn(r.element, r.dataset)
             THEN push_value_or_none(r.values, month - 1)
             ELSE NULL]

\* the eleven cells one iteration of the inner loop pushes (lines 75-243)
MonthlyRow(r, month) ==
    [c \in MonthlyColumns |->
        IF c = "id" THEN r.id
        ELSE IF c = "date" THEN MonthlyDate(r.year, month)
        ELSE IF c = TargetColumn(r.element, r.dataset)
             THEN push_value_or_none(r.values, month - 1)
             ELSE NULL]

\* the pushes of one iteration: one entry to each column the row has a cell for
PushRow(cols, row) ==
    [c \in MonthlyColumns |-> IF c \in DOMAIN row THEN Append(cols[c], row[c]) ELSE cols[c]]

Min2(a, b) == IF a < b THEN a ELSE b

\* the reading the `for r` loop of a batch starts at (line 70)
BatchFirstReading(rows_processed) == rows_processed \div months_per_year

MonthlyInit ==
    /\ m_readings \in SeqsUpTo(MonthlyInputs, MaxMonthlyReadings)
    /\ m_pc = "start"
    /\ m_total_rows = 0
    /\ m_rows_processed = 0
    /\ m_batch_size = 0
    /\ m_rows_in_batch = 0
    /\ m_cols = EmptyColumns
    /\ m_r = 0
    /\ m_month = 1
    /\ m_file = <<>>
    /\ m_failed = FALSE

\* lines 19-50: total_rows, the file and the writer
MonthlyCreate ==
    /\ m_pc = "start"
    /\ m_total_rows' = Len(m_readings) * months_per_year
    /\ \E ok \in BOOLEAN : m_pc' = (IF ok THEN "while" ELSE "error") /\ m_failed' = ~ok
    /\ UNCHANGED <<m_readings, m_rows_processed, m_batch_size, m_rows_in_batch, m_cols,
                   m_r, m_month, m_file>>
    /\ UNCHANGED not_m_vars

\* a loop head that sizes every batch as a full chunk
MonthlyBatchStart_FullChunk ==
    /\ m_pc = "while"
    /\ m_rows_processed < m_total_rows
    /\ m_batch_size' = chunk_size
    /\ m_cols' = EmptyColumns
    /\ m_rows_in_batch' = 0
    /\ m_r' = BatchFirstReading(m_rows_processed)
    /\ m_month' = 1
    /\ m_pc' = IF BatchFirstReading(m_rows_processed) < Len(m_readings) THEN "row" ELSE "write"
    /\ UNCHANGED <<m_readings, m_total_rows, m_rows_processed, m_file, m_failed>>
    /\ UNCHANGED not_m_vars

\* lines 52-70: the head of the while loop and the start of the for loops
MonthlyBatchStart ==
    /\ m_pc = "while"
    /\ m_rows_processed < m_total_rows
    /\ m_batch_size' = Min2(chunk_size, m_total_rows - m_rows_processed)
    /\ m_cols' = EmptyColumns
    /\ m_rows_in_batch' = 0
    /\ m_r' = BatchFirstReading(m_rows_processed)
    /\ m_month' = 1
    /\ m_pc' = IF BatchFirstReading(m_rows_processed) < Len(m_readings) THEN "row" ELSE "write"
    /\ UNCHANGED <<m_readings, m_total_rows, m_rows_processed, m_file, m_failed>>
    /\ UNCHANGED not_m_vars

\* lines 74-256: one iteration of the inner loop, and the loop exits
MonthlyRowStep ==
    /\ m_pc = "row"
    /\ m_cols' = PushRow(m_cols, MonthlyRow(m_readings[m_r + 1], m_month))
    /\ m_rows_processed' = m_rows_processed + 1
    /\ m_rows_in_batch' = m_rows_in_batch + 1
    /\ IF m_rows_in_batch + 1 = m_batch_size
       THEN \* both breaks (lines 249-256)
            /\ m_pc' = "write"
            /\ UNCHANGED <<m_r, m_month>>
       ELSE IF m_month < months_per_year
       THEN /\ m_month' = m_month + 1
            /\ UNCHANGED <<m_pc, m_r>>
       ELSE /\ m_month' = 1
            /\ m_r' = m_r + 1
            /\ m_pc' = IF m_r + 1 < Len(m_readings) THEN "row" ELSE "write"
    /\ UNCHANGED <<m_readings, m_total_rows, m_batch_size, m_file, m_failed>>
    /\ UNCHANGED not_m_vars

\* a write whose error is dropped instead of returned
writer_write_IgnoreError(next_pc) ==
    \/ m_file' = Append(m_file, m_cols) /\ m_pc' = next_pc /\ UNCHANGED m_failed
    \/ m_pc' = next_pc /\ m_failed' = TRUE /\ UNCHANGED m_file

\* writer.write(&batch)? (line 302): the batch is appended, or the error is
\* returned
writer_write(next_pc) ==
    \/ m_file' = Append(m_file, m_cols) /\ m_pc' = next_pc /\ UNCHANGED m_failed
    \/ m_pc' = "error" /\ m_failed' = TRUE /\ UNCHANGED m_file

\* lines 258-302: the arrays, the column-length assertion, the batch, the write
MonthlyWrite ==
    /\ m_pc = "write"
    /\ IF \E c \in MonthlyColumns : Len(m_cols[c]) # Len(m_cols["id"])
       THEN m_pc' = "panic" /\ UNCHANGED <<m_file, m_failed>>
       ELSE writer_write("while")
    /\ UNCHANGED <<m_readings, m_total_rows, m_rows_processed, m_batch_size,
                   m_rows_in_batch, m_cols, m_r, m_month>>
    /\ UNCHANGED not_m_vars

\* lines 305-309: the loop is over; writer.close() succeeds or fails
MonthlyClose ==
    /\ m_pc = "while"
    /\ m_rows_processed >= m_total_rows
    /\ \E ok \in BOOLEAN : m_pc' = (IF ok THEN "done" ELSE "error") /\ m_failed' = ~ok
    /\ UNCHANGED <<m_readings, m_total_rows, m_rows_processed, m_batch_size,
                   m_rows_in_batch, m_cols, m_r, m_month, m_file>>
    /\ UNCHANGED not_m_vars

MonthlyNext == MonthlyCreate \/ MonthlyBatchStart \/ MonthlyRowStep \/ MonthlyWrite \/ MonthlyClose

\* the rows C1 states: reading 0 months 1..12, reading 1 months 1..12, ...
MonthlyExpansion(readings) ==
    [k \in 1..(Len(readings) * months_per_year) |->
        MonthlyRow(readings[((k - 1) \div months_per_year) + 1],
                   ((k - 1) % months_per_year) + 1)]

\* ------------------------------------------------------------------------
\* Claims about save_monthly
\* ------------------------------------------------------------------------

\* C1 (as claimed): when save_monthly returns Ok, the rows of the file over all
\* batches in append order are reading 0 months 1..12, reading 1 months 1..12,
\* ...: 12*n rows, every (reading, month) pair exactly once.
C1_EveryReadingMonthOnce ==
    m_pc = "done" =>
        /\ Len(FileRows(m_file)) = months_per_year * Len(m_readings)
        /\ FileRows(m_file) = MonthlyExpansion(m_readings)

\* The reading and the month a written row was built from: batch b starts its
\* `for r` loop at readings[rows_processed / 12] with rows_processed =
\* (b - 1) * chunk_size (every batch before the last is full), and row j of the
\* batch is the j-th iteration of the two loops (lines 52-74).
SourceReading(b, j) ==
    BatchFirstReading((b - 1) * chunk_size) + ((j - 1) \div months_per_year) + 1

SourceMonth(j) == ((j - 1) % months_per_year) + 1

\* the schema's name of the measurement column of an (element, dataset) pair
\* (lines 30-38)
ElementPrefix(element) ==
    CASE element = "Max" -> "max" [] element = "Min" -> "min" [] element = "Avg" -> "avg"

DatasetSuffix(dataset) ==
    CASE dataset = "Raw" -> "raw" [] dataset = "Tob" -> "tob" [] dataset = "Fls52" -> "fls52"

MeasurementColumn(element, dataset) ==
    ElementPrefix(element) \o "_" \o DatasetSuffix(dataset)

\* the measurement columns of row j of batch b that are not null
NonNull(b, j) == {c \in ValueColumns : m_file[b][c][j] # NULL}

\* C11: in every row written by save_monthly at most one of the nine
\* measurement columns is non-null; a non-null cell is in the column of the
\* reading's (element, dataset) and that column holds the reading's value for
\* the row's month; a reading whose element or dataset is Unknown has all nine
\* null.  The file changes only when a batch is written, so the rows are
\* examined in the states between batches and at the end of the operation.
C11_OneMeasurementColumn ==
    m_pc \notin {"row", "write"} =>
    \A b \in 1..Len(m_file) : \A j \in 1..Len(m_file[b]["id"]) :
        LET r == m_readings[SourceReading(b, j)]
            month == SourceMonth(j)
        IN  /\ Cardinality(NonNull(b, j)) <= 1
            /\ m_file[b]["id"][j] = r.id
            /\ m_file[b]["date"][j] = MonthlyDate(r.year, month)
            /\ IF r.element = "Unknown" \/ r.dataset = "Unknown"
               THEN NonNull(b, j) = {}
               ELSE /\ NonNull(b, j) \subseteq {MeasurementColumn(r.element, r.dataset)}
                    /\ m_file[b][MeasurementColumn(r.element, r.dataset)][j] = r.values[month]

\* a finished file of several batches holding a row with a value in max_tob, a
\* row of a known reading whose month is missing, and a row of a reading with
\* an Unknown dataset
C11_Witness ==
    /\ m_pc = "done"
    /\ Len(m_file) >= 2
    /\ \E b \in 1..Len(m_file) : \E j \in 1..Len(m_file[b]["id"]) :
           NonNull(b, j) = {"max_tob"}
    /\ \E b \in 1..Len(m_file) : \E j \in 1..Len(m_file[b]["id"]) :
           /\ m_readings[SourceReading(b, j)].element = "Max"
           /\ m_readings[SourceReading(b, j)].dataset = "Tob"
           /\ SourceMonth(j) = 3
           /\ NonNull(b, j) = {}
    /\ \E b \in 1..Len(m_file) : \E j \in 1..Len(m_file[b]["id"]) :
           /\ m_readings[SourceReading(b, j)].element = "Min"
           /\ m_readings[SourceReading(b, j)].dataset = "Unknown"


\* ------------------------------------------------------------------------
\* Text: a &str is the sequence of its bytes. An ASCII character is one byte,
\* written as a one-character string; a two-byte character is a lead byte
\* followed by ContinuationByte.
\* ------------------------------------------------------------------------
\* &s[a..b] with 0-based byte offsets, for b <= Len(s)
Slice(s, a, b) == [k \in 1..(b - a) |-> s[a + k]]

\* does &s[a..b] panic? (byte index out of range)
SliceOutOfRange(s, a, b) == b > Len(s) \/ a > b

LeadByte == "<lead>"
ContinuationByte == "<continuation>"

\* a String holds whole characters only
WholeCharacters(s) ==
    /\ \A i \in 1..Len(s) : s[i] = LeadByte => i < Len(s) /\ s[i + 1] = ContinuationByte
    /\ \A i \in 1..Len(s) : s[i] = ContinuationByte => i > 1 /\ s[i - 1] = LeadByte

\* str::is_char_boundary
IsCharBoundary(s, i) ==
    i = 0 \/ i = Len(s) \/ (i < Len(s) /\ s[i + 1] # ContinuationByte)

\* does &s[a..b] panic? (out of range, or an offset inside a character)
SlicePanics(s, a, b) ==
    SliceOutOfRange(s, a, b) \/ ~IsCharBoundary(s, a) \/ ~IsCharBoundary(s, b)

Digits == <<"0", "1", "2", "3", "4", "5", "6", "7", "8", "9">>
IsDigit(c) == \E k \in 1..10 : Digits[k] = c
DigitVal(c) == (CHOOSE k \in 1..10 : Digits[k] = c) - 1

\* str::trim on a field of blanks and printable characters
RECURSIVE TrimStart(_)
TrimStart(s) == IF s # <<>> /\ Head(s) = " " THEN TrimStart(Tail(s)) ELSE s

RECURSIVE TrimEnd(_)
TrimEnd(s) ==
    IF s # <<>> /\ s[Len(s)] = " " THEN TrimEnd(SubSeq(s, 1, Len(s) - 1)) ELSE s

Trim(s) == TrimEnd(TrimStart(s))

\* the value of a non-empty run of digits; NULL if a character is no digit
RECURSIVE DigitsValue(_, _)
DigitsValue(s, acc) ==
    IF s = <<>> THEN Some(acc)
    ELSE IF IsDigit(Head(s)) THEN DigitsValue(Tail(s), acc * 10 + DigitVal(Head(s)))
    ELSE NULL

\* str::parse::<i32>: an optional sign and at least one digit; NULL for Err
\* (the fields parsed are at most five characters, far from the i32 range)
parse_i32(s) ==
    IF s = <<>> THEN NULL
    ELSE LET neg  == Head(s) = "-"
             body == IF Head(s) \in {"-", "+"} THEN Tail(s) ELSE s
             v    == IF body = <<>> THEN NULL ELSE DigitsValue(body, 0)
         IN  IF v = NULL THEN NULL
             ELSE Some(IF neg THEN 0 - v.some ELSE v.some)

\* str::parse::<u16>: an optional "+" and at least one digit, at most 65535
parse_u16(s) ==
    IF s = <<>> THEN NULL
    ELSE LET body == IF Head(s) = "+" THEN Tail(s) ELSE s
             v    == IF body = <<>> THEN NULL ELSE DigitsValue(body, 0)
         IN  IF v = NULL \/ v.some > 65535 THEN NULL ELSE v

\* ------------------------------------------------------------------------
\* DailyReading::from_line (reading/daily.rs), Element::from_str
\* ------------------------------------------------------------------------
\* Element::from_str on the four characters of the element field
Element_from_str(s) ==
    CASE s \in {<<"P", "R", "C", "P">>, <<"P", "R", "C", "p">>, <<"P", "R", "c", "P">>, <<"P", "R", "c", "p">>, <<"P", "r", "C", "P">>, <<"P", "r", "C", "p">>, <<"P", "r", "c", "P">>, <<"P", "r", "c", "p">>, <<"p", "R", "C", "P">>, <<"p", "R", "C", "p">>, <<"p", "R", "c", "P">>, <<"p", "R", "c", "p">>, <<"p", "r", "C", "P">>, <<"p", "r", "C", "p">>, <<"p", "r", "c", "P">>, <<"p", "r", "c", "p">>} -> "Prcp"
      [] s \in {<<"T", "M", "A", "X">>, <<"T", "M", "A", "x">>, <<"T", "M", "a", "X">>, <<"T", "M", "a", "x">>, <<"T", "m", "A", "X">>, <<"T", "m", "A", "x">>, <<"T", "m", "a", "X">>, <<"T", "m", "a", "x">>, <<"t", "M", "A", "X">>, <<"t", "M", "A", "x">>, <<"t", "M", "a", "X">>, <<"t", "M", "a", "x">>, <<"t", "m", "A", "X">>, <<"t", "m", "A", "x">>, <<"t", "m", "a", "X">>, <<"t", "m", "a", "x">>} -> "Tmax"
      [] s \in {<<"T", "M", "I", "N">>, <<"T", "M", "I", "n">>, <<"T", "M", "i", "N">>, <<"T", "M", "i", "n">>, <<"T", "m", "I", "N">>, <<"T", "m", "I", "n">>, <<"T", "m", "i", "N">>, <<"T", "m", "i", "n">>, <<"t", "M", "I", "N">>, <<"t", "M", "I", "n">>, <<"t", "M", "i", "N">>, <<"t", "M", "i", "n">>, <<"t", "m", "I", "N">>, <<"t", "m", "I", "n">>, <<"t", "m", "i", "N">>, <<"t", "m", "i", "n">>} -> "Tmin"
      [] OTHER -> "Unknown"

sentinel == 0 - 9999

\* a closure that divides by ten in both decoders
SlotValue_AlwaysTenths(chunk, divisor) ==
    LET v == parse_i32(Trim(Slice(chunk, 0, 5)))
    IN  IF v # NULL /\ v.some # sentinel THEN Val(v.some, 10) ELSE NULL

\* the closure of parse_daily_values / parse_monthly_values on one chunk
\* (daily.rs:62-66, monthly.rs:117-121): the first five characters, trimmed
SlotValue(chunk, divisor) ==
    LET v == parse_i32(Trim(Slice(chunk, 0, 5)))
    IN  IF v # NULL /\ v.some # sentinel THEN Val(v.some, divisor) ELSE NULL

daily_start_pos == 21
daily_chunk_length == 8

\* does a slice of parse_daily_values panic? (lines 61-62: the chunk, and
\* its first five bytes)
DailyValuesPanic(line) ==
    \E i \in 0..(num_chunks_daily - 1) :
        \/ SlicePanics(line, daily_start_pos + i * daily_chunk_length,
                       daily_start_pos + (i + 1) * daily_chunk_length)
        \/ SlicePanics(line, daily_start_pos + i * daily_chunk_length,
                       daily_start_pos + i * daily_chunk_length + 5)

\* parse_daily_values (lines 54-71), where it does not panic
parse_daily_values(line) ==
    [k \in 1..num_chunks_daily |->
        SlotValue(Slice(line, daily_start_pos + (k - 1) * daily_chunk_length,
                        daily_start_pos + k * daily_chunk_length), 10)]

Panic == [kind |-> "panic"]
Err == [kind |-> "err"]
Ok(reading) == [kind |-> "ok", reading |-> reading]

\* DailyReading::from_line (lines 27-46), in the order of its statements
DailyFromLine(line) ==
    IF SlicePanics(line, 0, 11) THEN Panic
    ELSE IF SlicePanics(line, 11, 15) THEN Panic
    ELSE IF parse_u16(Slice(line, 11, 15)) = NULL THEN Err
    ELSE IF SlicePanics(line, 15, 17) THEN Panic
    ELSE IF parse_u16(Slice(line, 15, 17)) = NULL THEN Err
    ELSE IF SlicePanics(line, 17, 21) THEN Panic
    ELSE IF DailyValuesPanic(line) THEN Panic
    ELSE Ok(MkDaily(Slice(line, 0, 11), NULL, NULL,
                    parse_u16(Slice(line, 11, 15)).some,
                    Some(parse_u16(Slice(line, 15, 17)).some),
                    Element_from_str(Slice(line, 17, 21)), "Unknown",
                    parse_daily_values(line)))

\* an is_valid that accepts every element
DailyIsValid_AcceptAll(reading) ==
    reading.properties.element \in {"Prcp", "Tmax", "Tmin", "Unknown"}

\* DailyReading::is_valid (lines 48-50)
DailyIsValid(reading) == reading.properties.element \in {"Prcp", "Tmax", "Tmin"}

\* ------------------------------------------------------------------------
\* MonthlyReading::from_line (reading/monthly.rs)
\* ------------------------------------------------------------------------
monthly_start_pos == 17
monthly_chunk_length == 9

\* line.to_string() + "  " (lines 94-95)
PaddedLine(line) == line \o <<" ", " ">>

\* the length check of parse_monthly_values (lines 103-109), and the slices
\* of the chunk and of its first five bytes (lines 116-117)
MonthlyValuesPanic(line) ==
    \/ Len(PaddedLine(line)) < monthly_start_pos + months_per_year * monthly_chunk_length
    \/ \E i \in 0..(months_per_year - 1) :
           \/ SlicePanics(PaddedLine(line), monthly_start_pos + i * monthly_chunk_length,
                          monthly_start_pos + (i + 1) * monthly_chunk_length)
           \/ SlicePanics(PaddedLine(line), monthly_start_pos + i * monthly_chunk_length,
                          monthly_start_pos + i * monthly_chunk_length + 5)

\* parse_monthly_values (lines 92-126), where it does not panic
parse_monthly_values(line) ==
    [k \in 1..months_per_year |->
        SlotValue(Slice(PaddedLine(line), monthly_start_pos + (k - 1) * monthly_chunk_length,
                        monthly_start_pos + k * monthly_chunk_length), 100)]

\* MonthlyReading::from_line (lines 75-89), in the order of its statements
MonthlyFromLine(line, file_properties) ==
    IF SlicePanics(line, 0, 11) THEN Panic
    ELSE IF SlicePanics(line, 12, 16) THEN Panic
    ELSE IF parse_u16(Slice(line, 12, 16)) = NULL THEN Err
    ELSE IF MonthlyValuesPanic(line) THEN Panic
    ELSE Ok(MkMonthly(Slice(line, 0, 11), parse_u16(Slice(line, 12, 16)).some,
                      file_properties.element, file_properties.dataset,
                      parse_monthly_values(line)))

\* ---- the lines the decoders are run on ----
\* a line's first `len` characters, blank-filled when len exceeds the line
MakeLine(full, len) == [k \in 1..len |-> IF k <= Len(full) THEN full[k] ELSE " "]

RECURSIVE Repeat(_, _)
Repeat(s, n) == IF n = 0 THEN <<>> ELSE s \o Repeat(s, n - 1)

\* daily: id, year, month, element
DailyHeader(h) ==
    CASE h = "tmax" -> <<"U", "S", "C", "0", "0", "0", "1", "1", "0", "8", "4", "1", "9", "2", "6", "0", "1", "T", "M", "A", "X">>
      [] h = "tobs" -> <<"U", "S", "C", "0", "0", "0", "1", "1", "0", "8", "4", "1", "9", "2", "6", "0", "1", "T", "O", "B", "S">>
      [] h = "prcp" -> <<"U", "S", "C", "0", "0", "4", "3", "7", "0", "5", "4", "2", "0", "2", "4", "0", "2", "p", "r", "c", "p">>
      [] h = "badyear" -> <<"U", "S", "C", "0", "0", "0", "1", "1", "0", "8", "4", "1", "9", "x", "6", "0", "1", "T", "M", "A", "X">>
      [] h = "badmonth" -> <<"U", "S", "C", "0", "0", "0", "1", "1", "0", "8", "4", "1", "9", "2", "6", " ", "1", "T", "M", "I", "N">>

DailyHeaders == {DailyHeader(h) : h \in {"tmax", "tobs", "prcp", "badyear", "badmonth"}}

\* daily slots: five characters of value, three of flags
DailySlotText(n) ==
    CASE n = "sentinel" -> <<"-", "9", "9", "9", "9", " ", " ", " ">>
      [] n = "217" -> <<" ", " ", "2", "1", "7", " ", " ", "6">>
      [] n = "189" -> <<" ", " ", "1", "8", "9", " ", " ", "6">>
      [] n = "neg5" -> <<" ", " ", " ", "-", "5", " ", " ", "6">>
      [] n = "malformed" -> <<" ", "1", "x", "7", " ", " ", " ", "6">>
      [] n = "blank" -> <<" ", " ", " ", " ", " ", " ", " ", " ">>
      [] n = "plus" -> <<" ", " ", "+", "4", "0", " ", " ", "6">>
      [] n = "twobyte" -> <<" ", "2", "1", "7", LeadByte, ContinuationByte, " ", "6">>

DailyFillSlots == {DailySlotText(n) : n \in {"sentinel", "217"}}
DailyLastSlots ==
    {DailySlotText(n) : n \in {"189", "sentinel", "neg5", "malformed", "blank", "plus", "twobyte"}}

daily_full_length == daily_start_pos + num_chunks_daily * daily_chunk_length

DailyLengths == {0, 10, 11, 14, 16, 20, 21, 22, 29, 261, 266, 268, 269, 275}

DailyLinesCut ==
    { MakeLine(h \o Repeat(fill, num_chunks_daily - 1) \o last, len) :
          h \in DailyHeaders, fill \in DailyFillSlots, last \in DailyLastSlots,
          len \in DailyLengths }

DailyLines == {l \in DailyLinesCut : WholeCharacters(l)}

\* monthly: id, one character, year, one blank
MonthlyHeaders ==
    {<<"U", "S", "H", "0", "0", "4", "8", "9", "6", "1", "5", "1", "1", "8", "9", "4", " ">>,
     <<"U", "S", "H", "0", "0", "4", "5", "7", "2", "6", "7", "1", "1", "8", "9", "2", " ">>,
     <<"U", "S", "H", "0", "0", "4", "8", "9", "6", "1", "5", "1", "1", "8", "x", "4", " ">>}

\* monthly slots: five characters of value, four of flags
MonthlyFillSlots == {<<"-", "9", "9", "9", "9", " ", " ", " ", " ">>, <<" ", " ", "5", "1", "7", "a", " ", " ", " ">>}
MonthlyLastSlots ==
    {<<" ", "2", "9", "3", "8", " ", " ", " ", " ">>,
     <<" ", " ", "-", "5", "0", " ", " ", "3", " ">>,
     <<"-", "9", "9", "9", "9", " ", " ", " ", " ">>,
     <<" ", " ", "5", " ", "7", " ", " ", " ", " ">>,
     <<" ", " ", " ", " ", " ", " ", " ", " ", " ">>,
     <<" ", "2", "9", "3", LeadByte, ContinuationByte, " ", " ", " ">>}

monthly_full_length == monthly_start_pos + months_per_year * monthly_chunk_length

MonthlyLengths == {0, 10, 11, 15, 16, 17, 26, 116, 121, 122, 123, 124, 125, 130}

MonthlyLinesCut ==
    { MakeLine(h \o Repeat(fill, months_per_year - 1) \o last, len) :
          h \in MonthlyHeaders, fill \in MonthlyFillSlots, last \in MonthlyLastSlots,
          len \in MonthlyLengths }

MonthlyLines == {l \in MonthlyLinesCut : WholeCharacters(l)}

MonthlyProps == {[dataset |-> "Raw", element |-> "Max"], [dataset |-> "Tob", element |-> "Min"]}

NoProps == [dataset |-> "Unknown", element |-> "Unknown"]

DecodeInit ==
    /\ f_result = NULL
    /\ \/ f_frame = "daily" /\ f_line \in DailyLines /\ f_props = NoProps
       \/ f_frame = "monthly" /\ f_line \in MonthlyLines /\ f_props \in MonthlyProps

\* a call of DailyReading::from_line
DecodeDaily ==
    /\ f_frame = "daily"
    /\ f_result = NULL
    /\ f_result' = DailyFromLine(f_line)
    /\ UNCHANGED <<f_frame, f_line, f_props>>
    /\ UNCHANGED not_f_vars

\* a call of MonthlyReading::from_line
DecodeMonthly ==
    /\ f_frame = "monthly"
    /\ f_result = NULL
    /\ f_result' = MonthlyFromLine(f_line, f_props)
    /\ UNCHANGED <<f_frame, f_line, f_props>>
    /\ UNCHANGED not_f_vars

DecodeNext == DecodeDaily \/ DecodeMonthly

\* ------------------------------------------------------------------------
\* Claims about the decoders
\* ------------------------------------------------------------------------
\* the header fields of the line are present and parse
DailyHeaderOk(line) ==
    /\ Len(line) >= daily_start_pos
    /\ parse_u16(Slice(line, 11, 15)) # NULL
    /\ parse_u16(Slice(line, 15, 17)) # NULL

MonthlyHeaderOk(line) ==
    /\ Len(line) >= 16
    /\ parse_u16(Slice(line, 12, 16)) # NULL

\* C5 (as claimed): for every line whose header fields are present and parse,
\* DailyReading::from_line returns Ok with exactly 31 slots, and each slot the
\* line is too short to contain is missing (a slot is contained when its five
\* value characters, which end three before the slot's end, are in the line).
C5_DailyAlways31 ==
    (f_frame = "daily" /\ f_result # NULL /\ DailyHeaderOk(f_line)) =>
        /\ f_result.kind = "ok"
        /\ Len(f_result.reading.values) = num_chunks_daily
        /\ \A k \in 1..num_chunks_daily :
               daily_start_pos + k * daily_chunk_length > Len(f_line) + 3
                   => f_result.reading.values[k] = NULL

\* C6 (as claimed): for every line whose header fields are present and parse,
\* MonthlyReading::from_line returns Ok with exactly 12 slots, and the slots
\* beyond the end of the line are missing.
C6_MonthlyAlways12 ==
    (f_frame = "monthly" /\ f_result # NULL /\ MonthlyHeaderOk(f_line)) =>
        /\ f_result.kind = "ok"
        /\ Len(f_result.reading.values) = months_per_year
        /\ \A k \in 1..months_per_year :
               monthly_start_pos + (k - 1) * monthly_chunk_length >= Len(f_line)
                   => f_result.reading.values[k] = NULL

\* the five bytes of value slot k (1-based) of a line
DailyField(line, k) ==
    Slice(line, daily_start_pos + (k - 1) * daily_chunk_length,
          daily_start_pos + (k - 1) * daily_chunk_length + 5)

MonthlyField(line, k) ==
    Slice(line, monthly_start_pos + (k - 1) * monthly_chunk_length,
          monthly_start_pos + (k - 1) * monthly_chunk_length + 5)

\* the field, trimmed, fails to parse as a signed integer or parses to -9999
FieldMissing(field) ==
    \/ parse_i32(Trim(field)) = NULL
    \/ parse_i32(Trim(field)) = Some(sentinel)

\* the line holds all the slots of its frame and its header fields parse
DailyLineComplete ==
    f_frame = "daily" /\ Len(f_line) >= daily_full_length /\ DailyHeaderOk(f_line)

MonthlyLineComplete ==
    f_frame = "monthly" /\ Len(f_line) >= monthly_full_length /\ MonthlyHeaderOk(f_line)

\* C13 (as claimed): in both decoders a value slot is missing if and only if
\* its five-byte field, trimmed, fails to parse as a signed integer or parses
\* to -9999; a sentinel or malformed field yields neither a number nor an
\* error, so the line is decoded whatever its fields hold.
C13_MissingIffSentinelOrMalformed ==
    /\ (DailyLineComplete /\ f_result # NULL) =>
          /\ f_result.kind = "ok"
          /\ \A k \in 1..num_chunks_daily :
                 f_result.reading.values[k] = NULL <=> FieldMissing(DailyField(f_line, k))
    /\ (MonthlyLineComplete /\ f_result # NULL) =>
          /\ f_result.kind = "ok"
          /\ \A k \in 1..months_per_year :
                 f_result.reading.values[k] = NULL <=> FieldMissing(MonthlyField(f_line, k))

\* C14: every integer v other than -9999 that a value field parses to is
\* stored as v/10 by DailyReading::from_line and as v/100 by
\* MonthlyReading::from_line, negative or positive, at the index of the slot it
\* was read from.
C14_ScaledInPlace ==
    (f_result # NULL /\ f_result.kind = "ok") =>
        /\ f_frame = "daily" =>
              \A k \in 1..num_chunks_daily :
                  LET v == parse_i32(Trim(DailyField(f_line, k)))
                  IN  (v # NULL /\ v # Some(sentinel))
                          => f_result.reading.values[k] = [num |-> v.some, den |-> 10]
        /\ f_frame = "monthly" =>
              \A k \in 1..months_per_year :
                  LET v == parse_i32(Trim(MonthlyField(f_line, k)))
                  IN  (v # NULL /\ v # Some(sentinel))
                          => f_result.reading.values[k] = [num |-> v.some, den |-> 100]

\* a monthly line decoded with 517 in its first slot and -50 in its last
C14_Witness ==
    /\ f_frame = "monthly"
    /\ f_result # NULL
    /\ f_result.kind = "ok"
    /\ parse_i32(Trim(MonthlyField(f_line, 1))) = Some(517)
    /\ f_result.reading.values[1] = [num |-> 517, den |-> 100]
    /\ parse_i32(Trim(MonthlyField(f_line, months_per_year))) = Some(0 - 50)
    /\ f_result.reading.values[months_per_year] = [num |-> 0 - 50, den |-> 100]

\* C15 (as claimed): for a line too short to hold the header fields (daily:
\* bytes 0..21, monthly: bytes 0..16) from_line returns an error value; it
\* does not panic.
C15_ShortLineIsError ==
    /\ (f_frame = "daily" /\ f_result # NULL /\ Len(f_line) < daily_start_pos)
           => f_result.kind = "err"
    /\ (f_frame = "monthly" /\ f_result # NULL /\ Len(f_line) < 16)
           => f_result.kind = "err"

\* ------------------------------------------------------------------------
\* deserialise and process_file (deserialise.rs), for R = DailyReading
\* ------------------------------------------------------------------------
\* The lines of the files: a line that decodes to a retained reading (two of
\* them), one that decodes to a reading is_valid rejects, one whose year does
\* not parse, one cut short inside its last slot, and a read error
\* (reader.lines() yields Err).
FullDailyLine(h, fill, last) ==
    DailyHeader(h) \o Repeat(DailySlotText(fill), num_chunks_daily - 1) \o DailySlotText(last)

LineText(l) ==
    CASE l = "tmax"    -> FullDailyLine("tmax", "217", "189")
      [] l = "prcp"    -> FullDailyLine("prcp", "sentinel", "neg5")
      [] l = "tobs"    -> FullDailyLine("tobs", "217", "189")
      [] l = "badyear" -> FullDailyLine("badyear", "217", "189")
      [] l = "short"   -> MakeLine(FullDailyLine("tmax", "217", "189"), daily_full_length - 3)

\* a file: can it be opened, and its lines
MkFile(opens, lines) == [opens |-> opens, lines |-> lines]

FileInputs ==
    { MkFile(FALSE, <<>>),
      MkFile(TRUE, <<>>),
      MkFile(TRUE, <<"tmax", "prcp">>),
      MkFile(TRUE, <<"tobs", "prcp">>),
      MkFile(TRUE, <<"tmax", "badyear", "prcp">>),
      MkFile(TRUE, <<"prcp", "short", "tmax">>),
      MkFile(TRUE, <<"prcp", "ioerr", "tmax">>) }

\* seen: the position of the progress bar the task read for its increment
NewTask == [pc |-> "unspawned", pos |-> 1, readings |-> <<>>, seen |-> 0]

Tasks == 1..Len(s_files)

TaskTerminated(t) == s_task[t].pc \in {"done", "err", "panicked"}

DeserInit ==
    /\ s_dir_ok \in BOOLEAN
    /\ s_files \in SeqsUpTo(FileInputs, MaxFiles)
    /\ s_pc = "start"
    /\ s_task = [t \in 1..Len(s_files) |-> NewTask]
    /\ s_lock = 0
    /\ s_progress = 0
    /\ s_reported = 0
    /\ s_readings = <<>>

\* lines 19-40: the listing, the progress bar, one tokio::spawn per file
DeserStart ==
    /\ s_pc = "start"
    /\ IF s_dir_ok
       THEN /\ s_task' = [t \in Tasks |-> [s_task[t] EXCEPT !.pc = "spawned"]]
            /\ s_pc' = "join"
       ELSE /\ s_pc' = "err"
            /\ UNCHANGED s_task
    /\ UNCHANGED <<s_dir_ok, s_files, s_lock, s_progress, s_reported, s_readings>>
    /\ UNCHANGED not_s_vars

\* process_file lines 62-65: File::open(file_path)?
TaskOpen(t) ==
    /\ s_task[t].pc = "spawned"
    /\ s_task' = [s_task EXCEPT ![t].pc = IF s_files[t].opens THEN "reading" ELSE "err"]
    /\ UNCHANGED <<s_dir_ok, s_files, s_pc, s_lock, s_progress, s_reported, s_readings>>
    /\ UNCHANGED not_s_vars

\* R::from_line(&line, "") on each of the lines above
FromLineOf ==
    [l \in {"tmax", "prcp", "tobs", "badyear", "short"} |-> DailyFromLine(LineText(l))]

\* a line loop that stops at a line it cannot read or decode and keeps what it
\* has
LineStep_ErrorEndsLoop(task, l) ==
    IF l = "ioerr" THEN [task EXCEPT !.pos = 1000]
    ELSE LET r == FromLineOf[l] IN
         IF r.kind = "panic" THEN [task EXCEPT !.pc = "panicked"]
         ELSE IF r.kind = "err" THEN [task EXCEPT !.pos = 1000]
         ELSE [task EXCEPT !.pos = @ + 1,
                           !.readings = IF DailyIsValid(r.reading)
                                        THEN Append(@, r.reading) ELSE @]

\* what one iteration of the line loop (lines 67-73) makes of the task
LineStep(task, l) ==
    IF l = "ioerr" THEN [task EXCEPT !.pc = "err"]                    \* line?
    ELSE LET r == FromLineOf[l] IN
         IF r.kind = "panic" THEN [task EXCEPT !.pc = "panicked"]
         ELSE IF r.kind = "err" THEN [task EXCEPT !.pc = "err"]       \* from_line(..)?
         ELSE [task EXCEPT !.pos = @ + 1,
                           !.readings = IF DailyIsValid(r.reading)
                                        THEN Append(@, r.reading) ELSE @]

\* process_file lines 67-73: the next line of the file
TaskLine(t) ==
    /\ s_task[t].pc = "reading"
    /\ s_task[t].pos <= Len(s_files[t].lines)
    /\ s_task' = [s_task EXCEPT ![t] = LineStep(@, s_files[t].lines[s_task[t].pos])]
    /\ UNCHANGED <<s_dir_ok, s_files, s_pc, s_lock, s_progress, s_reported, s_readings>>
    /\ UNCHANGED not_s_vars

\* a progress bar shared without its Mutex: the task does not wait
TaskLock_NoMutex(t) ==
    /\ s_task[t].pc = "reading"
    /\ s_task[t].pos > Len(s_files[t].lines)
    /\ s_lock' = t
    /\ s_task' = [s_task EXCEPT ![t].pc = "locked", ![t].seen = s_progress]
    /\ UNCHANGED <<s_dir_ok, s_files, s_pc, s_progress, s_reported, s_readings>>
    /\ UNCHANGED not_s_vars

\* process_file lines 76-77: progress_bar.lock() after the last line, and the
\* read of the position at the start of pb.inc(1)
TaskLock(t) ==
    /\ s_task[t].pc = "reading"
    /\ s_task[t].pos > Len(s_files[t].lines)
    /\ s_lock = 0
    /\ s_lock' = t
    /\ s_task' = [s_task EXCEPT ![t].pc = "locked", ![t].seen = s_progress]
    /\ UNCHANGED <<s_dir_ok, s_files, s_pc, s_progress, s_reported, s_readings>>
    /\ UNCHANGED not_s_vars

\* process_file lines 77-80: pb.inc(1) stores the new position, the guard is
\* dropped, Ok(readings)
TaskInc(t) ==
    /\ s_task[t].pc = "locked"
    /\ s_progress' = s_task[t].seen + 1
    /\ s_lock' = 0
    /\ s_task' = [s_task EXCEPT ![t].pc = "done"]
    /\ UNCHANGED <<s_dir_ok, s_files, s_pc, s_reported, s_readings>>
    /\ UNCHANGED not_s_vars

\* a result loop that takes the results in the order the tasks made their
\* increment
Collected_CompletionOrder(task) ==
    LET done == {t \in 1..Len(task) : task[t].pc = "done"}
        nth(k) == CHOOSE t \in done : Cardinality({u \in done : task[u].seen < task[t].seen}) = k - 1
    IN  Concat([k \in 1..Cardinality(done) |-> task[nth(k)].readings])

\* the readings the result loop (lines 43-49) collects from the joined tasks,
\* in task order: Ok(Ok(v)) extends, the two error arms add nothing
Collected(task) ==
    Concat([t \in 1..Len(task) |-> IF task[t].pc = "done" THEN task[t].readings ELSE <<>>])

\* the number of eprintln! reports of the result loop (lines 46-47)
Reports(task) == Cardinality({t \in 1..Len(task) : task[t].pc \in {"err", "panicked"}})

\* mutant: a failed task turns the whole result into an error
AfterJoin_FailFast(task) ==
    IF \E t \in 1..Len(task) : task[t].pc \in {"err", "panicked"} THEN "err" ELSE "finish"

\* where deserialise goes after the result loop (lines 43-49): no arm returns
AfterJoin(task) == "finish"

\* a join that completes as soon as one task has terminated
DeserJoin_FirstTask ==
    /\ s_pc = "join"
    /\ \E t \in Tasks : TaskTerminated(t)
    /\ s_readings' = Collected(s_task)
    /\ s_reported' = s_reported + Reports(s_task)
    /\ s_pc' = AfterJoin(s_task)
    /\ UNCHANGED <<s_dir_ok, s_files, s_task, s_lock, s_progress>>
    /\ UNCHANGED not_s_vars

\* lines 43-49: join_all(tasks).await completes when every task has
\* terminated; the results come in the order of the tasks
DeserJoin ==
    /\ s_pc = "join"
    /\ \A t \in Tasks : TaskTerminated(t)
    /\ s_readings' = Collected(s_task)
    /\ s_reported' = s_reported + Reports(s_task)
    /\ s_pc' = AfterJoin(s_task)
    /\ UNCHANGED <<s_dir_ok, s_files, s_task, s_lock, s_progress>>
    /\ UNCHANGED not_s_vars

\* lines 50-55: the progress bar is finished under its lock; Ok(readings)
DeserFinish ==
    /\ s_pc = "finish"
    /\ s_lock = 0
    /\ s_pc' = "done"
    /\ UNCHANGED <<s_dir_ok, s_files, s_task, s_lock, s_progress, s_reported, s_readings>>
    /\ UNCHANGED not_s_vars

DeserNext ==
    \/ DeserStart
    \/ \E t \in Tasks : TaskOpen(t)
    \/ \E t \in Tasks : TaskLine(t)
    \/ \E t \in Tasks : TaskLock(t)
    \/ \E t \in Tasks : TaskInc(t)
    \/ DeserJoin
    \/ DeserFinish

\* ------------------------------------------------------------------------
\* Claims about deserialise
\* ------------------------------------------------------------------------
\* does a line decode? (from_line returns Ok)
LineDecodes(l) == l # "ioerr" /\ DailyFromLine(LineText(l)).kind = "ok"

\* the retained readings of the lines of a file that decode, in line order
RECURSIVE RetainedOf(_)
RetainedOf(lines) ==
    IF lines = <<>> THEN <<>>
    ELSE (IF LineDecodes(Head(lines)) /\ DailyIsValid(DailyFromLine(LineText(Head(lines))).reading)
          THEN <<DailyFromLine(LineText(Head(lines))).reading>> ELSE <<>>)
         \o RetainedOf(Tail(lines))

\* the file can be opened and read to its end
FileReadable(file) ==
    file.opens /\ \A k \in 1..Len(file.lines) : file.lines[k] # "ioerr"

\* the task of the file succeeds: the file is readable and every line decodes
FileSucceeds(file) ==
    FileReadable(file) /\ \A k \in 1..Len(file.lines) : LineDecodes(file.lines[k])

\* C3 (as claimed): the task of a readable file with lines that fail to decode
\* skips those lines: it ends with Ok and the retained readings of all the
\* other lines.
C3_BadLineSkipped ==
    \A t \in Tasks :
        (TaskTerminated(t) /\ FileReadable(s_files[t])) =>
            /\ s_task[t].pc = "done"
            /\ s_task[t].readings = RetainedOf(s_files[t].lines)

\* C4: once the directory is listed, deserialise never ends in an error,
\* whatever the tasks do; it waits for every task, and returns the retained
\* readings of exactly the files whose task succeeded (file opened, every line
\* read and decoded), every other file contributing nothing; until it has
\* returned no task is stuck: every task is spawned, and the lock is held only
\* by a task that is about to release it.
C4_FileFailuresContained ==
    /\ s_pc = "err" => ~s_dir_ok
    /\ s_pc \in {"finish", "done"} =>
           /\ \A t \in Tasks : TaskTerminated(t)
           /\ \A t \in Tasks : FileSucceeds(s_files[t]) <=> s_task[t].pc = "done"
           /\ s_readings =
                  Concat([t \in 1..Len(s_files) |->
                             IF FileSucceeds(s_files[t]) THEN RetainedOf(s_files[t].lines)
                             ELSE <<>>])
    /\ s_pc = "join" => \A t \in Tasks : s_task[t].pc # "unspawned"
    /\ s_lock # 0 => s_task[s_lock].pc = "locked"
    /\ s_pc \in {"finish", "done"} => s_lock = 0

C4_Witness ==
    /\ s_pc = "done"
    /\ \E t \in Tasks : s_task[t].pc = "err"
    /\ \E t \in Tasks : s_task[t].pc = "done" /\ s_task[t].readings # <<>>
    /\ s_readings # <<>>
    /\ s_reported >= 1

\* the result for a listing: the retained readings of the files whose task
\* succeeds, in listing order
RECURSIVE ListingResult(_)
ListingResult(files) ==
    IF files = <<>> THEN <<>>
    ELSE (IF FileSucceeds(Head(files)) THEN RetainedOf(Head(files).lines) ELSE <<>>)
         \o ListingResult(Tail(files))

\* C26: for a fixed listing, what deserialise returns is the same whatever the
\* interleaving and the completion order of the tasks: the concatenation, in
\* listing order, of the retained readings, in line order, of each file that
\* was processed successfully.
C26_ResultInListingOrder ==
    /\ s_pc \in {"finish", "done"} => s_readings = ListingResult(s_files)
    /\ \A t \in Tasks : s_task[t].pc = "done" => s_task[t].readings = RetainedOf(s_files[t].lines)

\* deserialise has returned the readings of the first file before those of the
\* second, whose task completed first
C26_Witness ==
    /\ s_pc = "done"
    /\ Len(s_files) = 2
    /\ s_files[1].lines = <<"tmax", "prcp">>
    /\ s_files[2].lines = <<"tobs", "prcp">>
    /\ s_task[1].pc = "done" /\ s_task[2].pc = "done"
    /\ s_task[2].seen = 0 /\ s_task[1].seen = 1
    /\ Len(s_readings) = 3
    /\ s_readings[1].properties.element = "Tmax"

\* the task of the file returns an error: the file does not open, or the first
\* line that is not decoded is a read error or a decode error
FileReturnsError(file) ==
    \/ ~file.opens
    \/ \E k \in 1..Len(file.lines) :
           /\ \A j \in 1..(k - 1) : LineDecodes(file.lines[j])
           /\ \/ file.lines[k] = "ioerr"
              \/ file.lines[k] # "ioerr" /\ FromLineOf[file.lines[k]].kind = "err"

\* the listing without the files whose task returns an error
WithoutFailed(files) == SelectSeq(files, LAMBDA file : ~FileReturnsError(file))

ValidDecoded ==
    {tk \in UNION {{<<t, k>> : k \in 1..Len(s_files[t].lines)} : t \in Tasks} :
        /\ s_task[tk[1]].pc = "done"
        /\ DailyFromLine(LineText(s_files[tk[1]].lines[tk[2]])).reading.properties.element
               \in {"Prcp", "Tmax", "Tmin"}}

\* C16: every reading deserialise returns has element Prcp, Tmax or Tmin;
\* every reading with such an element decoded from a successfully processed
\* file is in the result, and nothing else is; a line with any other element
\* is dropped without failing its file.
C16_OnlyValidReadingsKept ==
    /\ \A t \in Tasks : \A k \in 1..Len(s_task[t].readings) :
           s_task[t].readings[k].properties.element \in {"Prcp", "Tmax", "Tmin"}
    /\ s_pc = "done" =>
           /\ \A k \in 1..Len(s_readings) :
                  s_readings[k].properties.element \in {"Prcp", "Tmax", "Tmin"}
           /\ \A tk \in ValidDecoded :
                  \E k \in 1..Len(s_readings) :
                      s_readings[k] = DailyFromLine(LineText(s_files[tk[1]].lines[tk[2]])).reading
           /\ Len(s_readings) = Cardinality(ValidDecoded)
           /\ \A t \in Tasks :
                  (s_files[t].opens /\ \A k \in 1..Len(s_files[t].lines) :
                                          s_files[t].lines[k] \in {"tmax", "prcp", "tobs"})
                      => s_task[t].pc = "done"

\* deserialise has returned the precipitation reading of a file whose other
\* line, of element TOBS, was dropped
C16_Witness ==
    /\ s_pc = "done"
    /\ \E t \in Tasks :
           /\ s_files[t].lines = <<"tobs", "prcp">>
           /\ s_task[t].pc = "done"
           /\ Len(s_task[t].readings) = 1
    /\ \E k \in 1..Len(s_readings) : s_readings[k].properties.element = "Prcp"

C18_ReturnsAfterEveryTask ==
    /\ [](s_pc \in {"join", "finish", "done"} =>
             /\ Len(s_task) = Len(s_files)
             /\ \A t \in Tasks : s_task[t].pc # "unspawned")
    /\ [](s_pc \in {"finish", "done"} => \A t \in Tasks : TaskTerminated(t))
    /\ [][(s_pc = "join" /\ s_pc' # "join") => \A t \in Tasks : TaskTerminated(t)]_vars
    /\ [][\A t \in Tasks : TaskTerminated(t) => s_task'[t] = s_task[t]]_vars
    /\ ((s_pc = "join" /\ \A t \in Tasks : TaskTerminated(t)) ~> s_pc = "done")

\* deserialise has returned after waiting for two tasks, one that panicked and
\* one that failed with an error
C18_Witness ==
    /\ s_pc = "done"
    /\ Len(s_files) = 2
    /\ \E t \in Tasks : s_task[t].pc = "panicked"
    /\ \E t \in Tasks : s_task[t].pc = "err"

\* ------------------------------------------------------------------------
\* inject_coords and make_lookup (cli/command/daily.rs), and their copies
\* inject_coords_monthly and make_lookup_monthly (cli/command/monthly.rs)
\* ------------------------------------------------------------------------
\* Station (cli/command/stations.rs:18-28), the fields the join reads
MkStation(coop_id, latitude, longitude) ==
    [country_code |-> "US", network_code |-> "0", id_placeholder |-> "00",
     coop_id |-> coop_id, latitude |-> latitude, longitude |-> longitude]

\* Station::station_id (cli/command/stations.rs:80-85)
station_id(station) ==
    station.country_code \o station.network_code \o station.id_placeholder \o station.coop_id

\* The stations of the fixture of should_make_lookup, with a second record of
\* station0 and stations that have one coordinate only
StationInputs ==
    { MkStation("station0", Val(10, 10), Val(20, 10)),
      MkStation("station0", Val(50, 10), Val(60, 10)),
      MkStation("station0", NULL, Val(70, 10)),
      MkStation("station1", Val(30, 10), NULL),
      MkStation("station2", NULL, NULL),
      MkStation("station3", NULL, Val(40, 10)) }

\* HashMap<String, (f32, f32)>: a function from the keys to the pairs
EmptyMap == [k \in {} |-> <<>>]

\* an insert that keeps the value of an existing key
Insert_KeepFirst(map, key, value) ==
    [k \in DOMAIN map \cup {key} |-> IF k \in DOMAIN map THEN map[k] ELSE value]

\* HashMap::insert: the value of an existing key is replaced
Insert(map, key, value) ==
    [k \in DOMAIN map \cup {key} |-> IF k = key THEN value ELSE map[k]]

\* a loop body that asks for the latitude only
LookupStation_LatitudeOnly(lookup, station) ==
    IF station.latitude # NULL
    THEN Insert(lookup, station_id(station), <<station.latitude, station.longitude>>)
    ELSE lookup

\* the body of the loop of make_lookup (lines 162-164)
LookupStation(lookup, station) ==
    IF station.latitude # NULL /\ station.longitude # NULL
    THEN Insert(lookup, station_id(station), <<station.latitude, station.longitude>>)
    ELSE lookup

\* make_lookup after the first n stations (lines 158-168)
RECURSIVE LookupOfFirst(_, _)
LookupOfFirst(stations, n) ==
    IF n = 0 THEN EmptyMap
    ELSE LookupStation(LookupOfFirst(stations, n - 1), stations[n])

make_lookup(stations) == LookupOfFirst(stations, Len(stations))

\* the readings handed to inject_coords come from deserialise, whose decoders
\* leave the coordinates unset (reading/daily.rs:29-30)
InjectIds == {"US000station0", "US000station1", "XXX"}

InjectInputs(frame) ==
    IF frame = "daily"
    THEN { MkDaily(id, NULL, NULL, 2024, Some(2), "Tmax", "Unknown", DailyValues({1})) :
               id \in InjectIds }
    ELSE { [id |-> id, lat |-> NULL, lon |-> NULL, year |-> 1894,
            properties |-> [dataset |-> "Raw", element |-> "Max"],
            values |-> MonthlyValues(500)] : id \in InjectIds }

\* a loop body that stores the pair the wrong way round
InjectOne_Swapped(reading, lookup) ==
    IF reading.id \in DOMAIN lookup
    THEN [reading EXCEPT !.lat = lookup[reading.id][2], !.lon = lookup[reading.id][1]]
    ELSE reading

\* the body of the loop of inject_coords (lines 146-149)
InjectOne(reading, lookup) ==
    IF reading.id \in DOMAIN lookup
    THEN [reading EXCEPT !.lat = lookup[reading.id][1], !.lon = lookup[reading.id][2]]
    ELSE reading

CoordsInit ==
    /\ c_frame \in {"daily", "monthly"}
    /\ c_stations \in SeqsUpTo(StationInputs, MaxStations)
    /\ c_readings \in SeqsUpTo(InjectInputs(c_frame), MaxInjectReadings)
    /\ c_pc = "start"
    /\ c_lookup = EmptyMap
    /\ c_out = <<>>

\* lines 140-143: the result vector and the lookup
InjectStart ==
    /\ c_pc = "start"
    /\ c_lookup' = make_lookup(c_stations)
    /\ c_pc' = "loop"
    /\ UNCHANGED <<c_frame, c_stations, c_readings, c_out>>
    /\ UNCHANGED not_c_vars

\* lines 145-152: one iteration of the loop
InjectStep ==
    /\ c_pc = "loop"
    /\ Len(c_out) < Len(c_readings)
    /\ c_out' = Append(c_out, InjectOne(c_readings[Len(c_out) + 1], c_lookup))
    /\ UNCHANGED <<c_frame, c_stations, c_readings, c_pc, c_lookup>>
    /\ UNCHANGED not_c_vars

\* line 154: Ok(readings_with_coords)
InjectReturn ==
    /\ c_pc = "loop"
    /\ Len(c_out) = Len(c_readings)
    /\ c_pc' = "done"
    /\ UNCHANGED <<c_frame, c_stations, c_readings, c_lookup, c_out>>
    /\ UNCHANGED not_c_vars

CoordsNext == InjectStart \/ InjectStep \/ InjectReturn

\* ------------------------------------------------------------------------
\* Claims about the coordinate join
\* ------------------------------------------------------------------------
\* a reading without its coordinates
WithoutCoords(reading) == [reading EXCEPT !.lat = NULL, !.lon = NULL]

\* C19: inject_coords and inject_coords_monthly have no error return; they
\* return as many readings as they were given, in the same order, each equal
\* to its input in every field but lat and lon; a reading whose id is in the
\* lookup has exactly the lookup's latitude and longitude, a reading whose id
\* is absent keeps its coordinates unset.
C19_CoordsInjected ==
    /\ c_pc \in {"idle", "start", "loop", "done"}
    /\ c_pc = "done" =>
          /\ Len(c_out) = Len(c_readings)
          /\ \A i \in 1..Len(c_out) :
                 /\ WithoutCoords(c_out[i]) = WithoutCoords(c_readings[i])
                 /\ c_readings[i].id \in DOMAIN c_lookup =>
                        /\ c_out[i].lat = c_lookup[c_readings[i].id][1]
                        /\ c_out[i].lon = c_lookup[c_readings[i].id][2]
                 /\ c_readings[i].id \notin DOMAIN c_lookup =>
                        c_out[i].lat = NULL /\ c_out[i].lon = NULL

\* two readings returned: the first of station0 with the coordinates of the
\* lookup, the second of a station absent from the lookup without coordinates
C19_Witness ==
    /\ c_pc = "done"
    /\ Len(c_out) = 2
    /\ c_out[1].id = "US000station0"
    /\ c_out[1].lat = Val(10, 10)
    /\ c_out[1].lon = Val(20, 10)
    /\ c_out[2].id = "XXX"
    /\ c_out[2].lat = NULL

\* the ids of the stations that have both coordinates
IdsWithBoth(stations) ==
    {station_id(stations[k]) : k \in {j \in 1..Len(stations) :
        stations[j].latitude # NULL /\ stations[j].longitude # NULL}}

\* C20: make_lookup holds a station id if and only if some station with that
\* id has both latitude and longitude; the ids of stations with one coordinate
\* or none, and ids of no station, are absent; its values are pairs of two
\* coordinates.
C20_LookupHasBothOrNothing ==
    c_pc \in {"loop", "done"} =>
        /\ DOMAIN c_lookup = IdsWithBoth(c_stations)
        /\ \A id \in DOMAIN c_lookup : c_lookup[id][1] # NULL /\ c_lookup[id][2] # NULL
        /\ "XXX" \notin DOMAIN c_lookup
        /\ \A k \in 1..Len(c_stations) :
               (c_stations[k].latitude = NULL \/ c_stations[k].longitude = NULL)
                   => (station_id(c_stations[k]) \in DOMAIN c_lookup
                          <=> \E j \in 1..Len(c_stations) :
                                 /\ station_id(c_stations[j]) = station_id(c_stations[k])
                                 /\ c_stations[j].latitude # NULL
                                 /\ c_stations[j].longitude # NULL)

\* the lookup of a station with both coordinates and a station with latitude
\* only: the first is in it, the second is not
C20_Witness ==
    /\ c_pc = "loop"
    /\ Len(c_stations) = 2
    /\ c_stations[1].coop_id = "station0"
    /\ c_stations[2].coop_id = "station1"
    /\ c_stations[2].latitude # NULL
    /\ DOMAIN c_lookup = {"US000station0"}

\* the positions of the stations of an id that have both coordinates
PositionsWithBoth(stations, id) ==
    {j \in 1..Len(stations) :
        /\ station_id(stations[j]) = id
        /\ stations[j].latitude # NULL
        /\ stations[j].longitude # NULL}

Last(S) == CHOOSE j \in S : \A k \in S : k <= j

\* C21: when several stations with both coordinates share a station id,
\* make_lookup maps the id to the coordinates of the last of them in input
\* order; building the lookup has no error outcome.
C21_LastStationWins ==
    /\ c_pc \in {"idle", "start", "loop", "done"}
    /\ c_pc \in {"loop", "done"} =>
          \A id \in DOMAIN c_lookup :
              LET last == c_stations[Last(PositionsWithBoth(c_stations, id))]
              IN  c_lookup[id] = <<last.latitude, last.longitude>>

\* two records of station0, with coordinates (1, 2) and then (5, 6): the
\* lookup holds (5, 6)
C21_Witness ==
    /\ c_pc = "loop"
    /\ Len(c_stations) >= 2
    /\ c_stations[1] = MkStation("station0", Val(10, 10), Val(20, 10))
    /\ c_stations[2] = MkStation("station0", Val(50, 10), Val(60, 10))
    /\ c_lookup["US000station0"] = <<Val(50, 10), Val(60, 10)>>

\* ------------------------------------------------------------------------
\* Station::from_ushcn_line, Station::from_ghcn_line, extract_ushcn_stations
\* and extract_ghcn_stations (cli/command/stations.rs)
\* ------------------------------------------------------------------------
\* the position of the first "." of s, or 0
DotAt(s) ==
    IF \E k \in 1..Len(s) : s[k] = "."
    THEN CHOOSE k \in 1..Len(s) : s[k] = "." /\ \A j \in 1..(k - 1) : s[j] # "."
    ELSE 0

RECURSIVE Pow10(_)
Pow10(n) == IF n = 0 THEN 1 ELSE 10 * Pow10(n - 1)

\* the number of decimals kept of a parsed f32
f32_decimals == 4

\* str::parse::<f32> on decimal text: an optional sign, digits, and an optional
\* point with digits, at least one digit in all; the value in ten-thousandths.
\* NULL for Err. (Exponents, "inf" and "nan" do not occur in the fields.)
parse_f32(s) ==
    IF s = <<>> THEN NULL
    ELSE LET neg   == Head(s) = "-"
             body  == IF Head(s) \in {"-", "+"} THEN Tail(s) ELSE s
             dot   == DotAt(body)
             whole == IF dot = 0 THEN body ELSE SubSeq(body, 1, dot - 1)
             frac  == IF dot = 0 THEN <<>> ELSE SubSeq(body, dot + 1, Len(body))
             w     == DigitsValue(whole, 0)
             f     == DigitsValue(frac, 0)
         IN  IF whole \o frac = <<>> \/ w = NULL \/ f = NULL \/ Len(frac) > f32_decimals
             THEN NULL
             ELSE LET n == w.some * Pow10(f32_decimals)
                           + f.some * Pow10(f32_decimals - Len(frac))
                  IN  Some(Val(IF neg THEN 0 - n ELSE n, Pow10(f32_decimals)))

\* -999.9 as a parsed f32
missing_f32 == Val(0 - 9999000, Pow10(f32_decimals))

\* parse_and_filter_f32 (lines 163-165)
parse_and_filter_f32(s) ==
    LET v == parse_f32(Trim(s))
    IN  IF v = NULL \/ v.some = missing_f32 THEN NULL ELSE v

\* parse_str (lines 167-169)
parse_str(s) == IF Trim(s) = <<>> THEN NULL ELSE Some(Trim(s))

\* the body shared by from_ushcn_line (lines 32-54) and from_ghcn_line (lines
\* 56-78), in the order of its statements; latitude_start is 12 or 11
StationFromLine(line, latitude_start) ==
    IF SlicePanics(line, 0, 2) THEN Panic
    ELSE IF SlicePanics(line, 2, 3) THEN Panic
    ELSE IF SlicePanics(line, 3, 5) THEN Panic
    ELSE IF SlicePanics(line, 5, 11) THEN Panic
    ELSE IF SlicePanics(line, latitude_start, 20) THEN Panic
    ELSE IF SlicePanics(line, 21, 30) THEN Panic
    ELSE IF SlicePanics(line, 32, 37) THEN Panic
    ELSE IF SlicePanics(line, 38, 40) THEN Panic
    ELSE IF SlicePanics(line, 41, 71) THEN Panic
    ELSE [kind |-> "ok",
          station |-> [country_code |-> Slice(line, 0, 2),
                       network_code |-> Slice(line, 2, 3),
                       id_placeholder |-> Slice(line, 3, 5),
                       coop_id |-> Slice(line, 5, 11),
                       latitude |-> parse_and_filter_f32(Slice(line, latitude_start, 20)),
                       longitude |-> parse_and_filter_f32(Slice(line, 21, 30)),
                       elevation |-> parse_and_filter_f32(Slice(line, 32, 37)),
                       state |-> parse_str(Slice(line, 38, 40)),
                       name |-> Trim(Slice(line, 41, 71))]]

from_ushcn_line(line) == StationFromLine(line, 12)
from_ghcn_line(line) == StationFromLine(line, 11)

station_line_length == 71

\* The lines of the station files: the two fixtures of the tests, a line whose
\* byte 11 is a minus sign, a line of missing values, a line cut short, an
\* empty line, and a line with a two-byte character in bytes 11 and 12.
StationText(l) ==
    CASE l = "brewton" -> MakeLine(<<"U", "S", "H", "0", "0", "0", "1", "1", "0", "8", "4", " ", " ", "3", "1", ".", "0", "5", "8", "1", " ", " ", "-", "8", "7", ".", "0", "5", "4", "7", " ", " ", " ", "2", "5", ".", "9", " ", "A", "L", " ", "B", "R", "E", "W", "T", "O", "N", " ", "3", " ", "S", "S", "E">>, station_line_length)
      [] l = "johnsbury" -> MakeLine(<<"U", "S", "C", "0", "0", "4", "3", "7", "0", "5", "4", " ", " ", "4", "4", ".", "4", "2", "0", "0", " ", " ", "-", "7", "2", ".", "0", "1", "9", "4", " ", " ", "2", "1", "3", ".", "4", " ", "V", "T", " ", "S", "A", "I", "N", "T", " ", "J", "O", "H", "N", "S", "B", "U", "R", "Y">>, station_line_length)
      [] l = "minus" -> MakeLine(<<"U", "S", "C", "0", "0", "4", "3", "7", "0", "5", "4", "-", "3", "1", ".", "0", "5", "8", "1", " ", " ", " ", "-", "7", "2", ".", "0", "1", "9", "4", " ", " ", "2", "1", "3", ".", "4", " ", "V", "T", " ", "S", "A", "I", "N", "T", " ", "J", "O", "H", "N", "S", "B", "U", "R", "Y">>, station_line_length)
      [] l = "missing" -> MakeLine(<<"U", "S", "C", "0", "0", "4", "3", "7", "0", "5", "4", " ", " ", "-", "9", "9", "9", ".", "9", " ", " ", " ", " ", "-", "9", "9", "9", ".", "9", " ", " ", " ", " ", " ", " ", " ", " ", " ", " ", " ", " ", "N", "O", "W", "H", "E", "R", "E">>, station_line_length)
      [] l = "short" -> MakeLine(<<"U", "S", "H", "0", "0", "0", "1", "1", "0", "8", "4", " ", " ", "3", "1", ".", "0", "5", "8", "1", " ", " ", "-", "8", "7", ".", "0", "5", "4", "7", " ", " ", " ", "2", "5", ".", "9", " ", "A", "L", " ", "B", "R", "E", "W", "T", "O", "N", " ", "3", " ", "S", "S", "E">>, 40)
      [] l = "empty" -> <<>>
      [] l = "twobyte" -> [k \in 1..station_line_length |->
                              IF k = 12 THEN LeadByte
                              ELSE IF k = 13 THEN ContinuationByte
                              ELSE MakeLine(<<"U", "S", "H", "0", "0", "0", "1", "1", "0", "8", "4", " ", " ", "3", "1", ".", "0", "5", "8", "1", " ", " ", "-", "8", "7", ".", "0", "5", "4", "7", " ", " ", " ", "2", "5", ".", "9", " ", "A", "L", " ", "B", "R", "E", "W", "T", "O", "N", " ", "3", " ", "S", "S", "E">>, station_line_length)[k]]

StationLabels == {"brewton", "johnsbury", "minus", "missing", "short", "empty", "twobyte"}

\* the two parse modes on each of the lines above
UshcnOf == [l \in StationLabels |-> from_ushcn_line(StationText(l))]
GhcnOf == [l \in StationLabels |-> from_ghcn_line(StationText(l))]

StationOf(mode, l) == IF mode = "ushcn" THEN UshcnOf[l] ELSE GhcnOf[l]

\* the files: every sequence of lines, a read error ("ioerr") among them, and a
\* file that cannot be opened
StationFiles ==
    {MkFile(TRUE, lines) : lines \in SeqsUpTo(StationLabels \cup {"ioerr"}, MaxStationLines)}
    \cup {MkFile(FALSE, <<>>)}

ExtractInit ==
    /\ g_mode \in {"ushcn", "ghcn"}
    /\ g_file \in StationFiles
    /\ g_pc = "start"
    /\ g_stations = <<>>

\* lines 134-137: File::open(archive_filepath)?
ExtractOpen ==
    /\ g_pc = "start"
    /\ g_pc' = IF g_file.opens THEN "loop" ELSE "err"
    /\ UNCHANGED <<g_mode, g_file, g_stations>>
    /\ UNCHANGED not_g_vars

\* lines 139-143: one iteration of the loop
ExtractLine ==
    /\ g_pc = "loop"
    /\ Len(g_stations) < Len(g_file.lines)
    /\ LET l == g_file.lines[Len(g_stations) + 1] IN
       IF l = "ioerr"
       THEN g_pc' = "err" /\ UNCHANGED g_stations
       ELSE IF StationOf(g_mode, l).kind = "panic"
       THEN g_pc' = "panic" /\ UNCHANGED g_stations
       ELSE g_stations' = Append(g_stations, StationOf(g_mode, l).station)
            /\ UNCHANGED g_pc
    /\ UNCHANGED <<g_mode, g_file>>
    /\ UNCHANGED not_g_vars

\* line 145: Ok(stations)
ExtractReturn ==
    /\ g_pc = "loop"
    /\ Len(g_stations) = Len(g_file.lines)
    /\ g_pc' = "done"
    /\ UNCHANGED <<g_mode, g_file, g_stations>>
    /\ UNCHANGED not_g_vars

ExtractNext == ExtractOpen \/ ExtractLine \/ ExtractReturn

\* ------------------------------------------------------------------------
\* Claims about the station files
\* ------------------------------------------------------------------------
\* the line is read and the mode decodes it
StationLineDecodes(mode, l) == l # "ioerr" /\ StationOf(mode, l).kind = "ok"

\* C22 (as claimed): extract_ushcn_stations and extract_ghcn_stations end with
\* an error value or with exactly one Station per line of the file in file
\* order; if the file cannot be opened or some line cannot be read or decoded
\* they end with an error value.
C22_AllStationsOrError ==
    g_pc \in {"done", "err", "panic"} =>
        /\ g_pc \in {"done", "err"}
        /\ g_pc = "done" =>
              /\ Len(g_stations) = Len(g_file.lines)
              /\ \A k \in 1..Len(g_stations) :
                     g_stations[k] = StationOf(g_mode, g_file.lines[k]).station
        /\ (~g_file.opens \/ \E k \in 1..Len(g_file.lines) :
                                 ~StationLineDecodes(g_mode, g_file.lines[k]))
               => g_pc = "err"

\* the lines of the file that a parse mode has been applied to
LinesApplied ==
    {k \in 1..Len(g_file.lines) :
        /\ g_file.lines[k] # "ioerr"
        /\ \/ k <= Len(g_stations)
           \/ k = Len(g_stations) + 1 /\ g_pc = "panic"}

\* C23 (as claimed): on every station line long enough for both parse modes
\* (71 bytes), from_ushcn_line and from_ghcn_line both yield a station, with the
\* same country code, network code, id placeholder, coop id, longitude,
\* elevation, state and name, and so the same station_id; the latitude is read
\* from bytes [12,20) in the USHCN mode and from bytes [11,20) in the GHCN mode.
C23_ModesDifferOnlyInLatitude ==
    \A k \in LinesApplied :
        LET l    == g_file.lines[k]
            line == StationText(l)
            u    == UshcnOf[l]
            g    == GhcnOf[l]
        IN  Len(line) >= station_line_length =>
                /\ u.kind = "ok" /\ g.kind = "ok"
                /\ \A field \in {"country_code", "network_code", "id_placeholder", "coop_id",
                                 "longitude", "elevation", "state", "name"} :
                       u.station[field] = g.station[field]
                /\ station_id(u.station) = station_id(g.station)
                /\ u.station.latitude = parse_and_filter_f32(Slice(line, 12, 20))
                /\ g.station.latitude = parse_and_filter_f32(Slice(line, 11, 20))

\* ------------------------------------------------------------------------
\* FileProperties::from_file (reading/file_properties.rs and reading/monthly.rs)
\* ------------------------------------------------------------------------
\* str::split('.') collected into a Vec
RECURSIVE SplitDot(_)
SplitDot(s) ==
    IF DotAt(s) = 0 THEN <<s>>
    ELSE <<SubSeq(s, 1, DotAt(s) - 1)>> \o SplitDot(SubSeq(s, DotAt(s) + 1, Len(s)))

\* the match on parts[1] (lines 17-21)
DatasetOfPart(part) ==
    CASE part = <<"r", "a", "w">> -> "Raw"
      [] part = <<"t", "o", "b">> -> "Tob"
      [] OTHER -> "Unknown"

\* an element match that knows no averages
ElementOfPart_NoAvg(part) ==
    CASE part = <<"t", "m", "a", "x">> -> "Max"
      [] part = <<"t", "m", "i", "n">> -> "Min"
      [] OTHER -> "Unknown"

\* the match on parts[2] (lines 22-27) and on parts[3] (lines 33-38)
ElementOfPart(part) ==
    CASE part = <<"t", "m", "a", "x">> -> "Max"
      [] part = <<"t", "m", "i", "n">> -> "Min"
      [] part = <<"t", "a", "v", "g">> -> "Avg"
      [] OTHER -> "Unknown"

MkProps(dataset, element) == [dataset |-> dataset, element |-> element]

\* FileProperties::from_file of reading/file_properties.rs (lines 13-48)
from_file(file_name) ==
    LET parts == SplitDot(file_name) IN
    CASE Len(parts) = 3 -> Ok(MkProps(DatasetOfPart(parts[2]), ElementOfPart(parts[3])))
      [] Len(parts) = 4 -> Ok(MkProps("Fls52", ElementOfPart(parts[4])))
      [] OTHER -> Ok(MkProps("Unknown", "Unknown"))

\* FileProperties::from_file of reading/monthly.rs (lines 28-60)
monthly_from_file(file_name) ==
    LET parts == SplitDot(file_name) IN
    CASE Len(parts) = 3 -> Ok(MkProps(DatasetOfPart(parts[2]), ElementOfPart(parts[3])))
      [] Len(parts) = 4 -> Ok(MkProps("Fls52", ElementOfPart(parts[4])))
      [] OTHER -> Err

\* The file names: up to MaxParts segments joined by dots, each segment one of
\* the words of the fixtures ("USH00297610.tob.tmax", "USH00118916.FLs.52j.tmin", with one station id),
\* the other dataset and element words, or empty.
PartWords == {<<"U", "S", "H", "0", "0", "2", "9", "7", "6", "1", "0">>, <<"r", "a", "w">>, <<"t", "o", "b">>, <<"t", "m", "a", "x">>, <<"t", "m", "i", "n">>, <<"t", "a", "v", "g">>, <<"F", "L", "s">>, <<"5", "2", "j">>, <<>>}

RECURSIVE JoinDot(_)
JoinDot(parts) ==
    IF Len(parts) = 1 THEN parts[1] ELSE parts[1] \o <<".">> \o JoinDot(Tail(parts))

PropsInit ==
    /\ p_def \in {"file_properties", "monthly"}
    /\ p_parts \in {parts \in SeqsUpTo(PartWords, MaxParts) : Len(parts) >= 1}
    /\ p_file_name = JoinDot(p_parts)
    /\ p_result = NULL

\* a call of from_file
PropsCall ==
    /\ p_def \in {"file_properties", "monthly"}
    /\ p_result = NULL
    /\ p_result' = IF p_def = "file_properties" THEN from_file(p_file_name)
                                                 ELSE monthly_from_file(p_file_name)
    /\ UNCHANGED <<p_def, p_parts, p_file_name>>
    /\ UNCHANGED not_p_vars

PropsNext == PropsCall

\* ------------------------------------------------------------------------
\* Claims about FileProperties::from_file
\* ------------------------------------------------------------------------
DatasetNamed(part) ==
    IF part = <<"r", "a", "w">> THEN "Raw" ELSE IF part = <<"t", "o", "b">> THEN "Tob" ELSE "Unknown"

ElementNamed(part) ==
    IF part = <<"t", "m", "a", "x">> THEN "Max" ELSE IF part = <<"t", "m", "i", "n">> THEN "Min"
    ELSE IF part = <<"t", "a", "v", "g">> THEN "Avg" ELSE "Unknown"

\* C24: from_file (either definition) on a name of 3 dot-separated parts yields
\* the dataset named by part 2 (raw, tob, else Unknown) and the element named by
\* part 3 (tmax, tmin, tavg, else Unknown); on a name of 4 parts it yields
\* dataset Fls52 and the element named by part 4.
C24_PropertiesFromParts ==
    p_result # NULL =>
        /\ Len(p_parts) = 3 =>
              p_result = Ok(MkProps(DatasetNamed(p_parts[2]), ElementNamed(p_parts[3])))
        /\ Len(p_parts) = 4 =>
              p_result = Ok(MkProps("Fls52", ElementNamed(p_parts[4])))

\* a name of three parts has been decoded
C24_Witness ==
    /\ p_file_name = <<"U", "S", "H", "0", "0", "2", "9", "7", "6", "1", "0", ".", "t", "o", "b", ".", "t", "a", "v", "g">>
    /\ p_result = Ok(MkProps("Tob", "Avg"))

\* C25 (as claimed): from_file never fails, in both of its definitions: on a
\* name whose number of dot-separated parts is neither 3 nor 4 it returns Ok
\* with dataset Unknown and element Unknown.
C25_NeverFails ==
    p_result # NULL =>
        /\ p_result.kind = "ok"
        /\ Len(p_parts) \notin {3, 4} => p_result = Ok(MkProps("Unknown", "Unknown"))

\* ------------------------------------------------------------------------
\* Claims about the batch loop of save_monthly
\* ------------------------------------------------------------------------
CeilDiv(a, b) == (a + b - 1) \div b

\* C28: the batch loop of save_monthly terminates on every input: the
\* operation ends (Ok, or the error of a failed call); every iteration has at
\* least one row remaining and appends a batch of exactly min(chunk_size,
\* remaining) rows, after which rows_processed has grown by that many; it never
\* exceeds 12*n; and when the operation returns Ok rows_processed is 12*n and
\* exactly ceil(12*n / chunk_size) batches were appended, none for an empty
\* reading list.
C28_BatchLoopTerminates ==
    /\ <>(m_pc \in {"done", "error"})
    /\ [](m_rows_processed <= m_total_rows)
    /\ [][(m_pc = "write" /\ m_pc' = "while") =>
             /\ m_batch_size >= 1
             /\ m_batch_size = Min2(chunk_size, m_total_rows - (m_rows_processed - m_rows_in_batch))
             /\ m_rows_in_batch = m_batch_size
             /\ Len(m_file') = Len(m_file) + 1
             /\ Len(m_file'[Len(m_file')]["id"]) = m_batch_size]_vars
    /\ [][m_rows_processed' >= m_rows_processed]_vars
    /\ [](m_pc = "while" => m_rows_processed = Len(FileRows(m_file)))
    /\ [](m_pc = "done" =>
             /\ m_rows_processed = months_per_year * Len(m_readings)
             /\ Len(m_file) = CeilDiv(months_per_year * Len(m_readings), chunk_size)
             /\ (m_readings = <<>> => m_file = <<>>))

\* save_monthly has returned Ok after writing two readings in full batches and
\* a last, smaller one
C28_Witness ==
    /\ m_pc = "done"
    /\ Len(m_readings) = 2
    /\ Len(m_file) = CeilDiv(2 * months_per_year, chunk_size)
    /\ Len(m_file[1]["id"]) = chunk_size
    /\ Len(m_file[Len(m_file)]["id"]) = (2 * months_per_year) % chunk_size
    /\ (2 * months_per_year) % chunk_size # 0

\* C29: the column-length assertion of save_monthly never fails: whatever the
\* element and dataset of a reading (Unknown included), every emitted row
\* pushes exactly one entry to each of the 11 columns, so while a batch is
\* built and when it is written all columns have the same length, the number
\* of rows of the batch.
C29_ColumnsSameLength ==
    /\ [](m_pc # "panic")
    /\ [](Cardinality(MonthlyColumns) = 11)
    /\ [](m_pc \in {"row", "write"} =>
             \A c \in MonthlyColumns : Len(m_cols[c]) = m_rows_in_batch)
    /\ [][m_rows_in_batch' = m_rows_in_batch + 1 =>
             \A c \in MonthlyColumns : Len(m_cols'[c]) = Len(m_cols[c]) + 1]_vars
    /\ [][Len(m_file') = Len(m_file) + 1 =>
             \A c \in MonthlyColumns : Len(m_file'[Len(m_file')][c]) = m_rows_in_batch]_vars

\* a batch holding rows of a reading with an Unknown element and of a reading
\* with an Unknown dataset has passed the assertion and been written
C29_Witness ==
    /\ m_pc \in {"while", "done"}
    /\ Len(m_readings) = 2
    /\ m_readings[1].element = "Unknown"
    /\ m_readings[2].element = "Max" /\ m_readings[2].dataset = "Unknown"
    /\ Len(m_file) = CeilDiv(2 * months_per_year, chunk_size)
    /\ \A c \in MonthlyColumns : Len(m_file[Len(m_file)][c]) = Len(m_file[Len(m_file)]["id"])

\* ------------------------------------------------------------------------
\* download_archive_cached (cli/command/daily.rs) and
\* download_tar_with_progress (download.rs), over the runs of the daily command
\* ------------------------------------------------------------------------
\* the two directories get_cache_dir chooses between (daily.rs lines 52-61)
CacheDirs == {"persistent", "temp"}

\* the archive file of a directory: NULL when absent, else the number of chunks
\* of the archive it holds
NoArchives == [dir \in CacheDirs |-> NULL]

CacheInit ==
    /\ k_chunks \in 1..MaxChunks
    /\ k_files = NoArchives
    /\ k_completed = [dir \in CacheDirs |-> FALSE]
    /\ k_runs = 0
    /\ k_dir = "persistent"
    /\ k_pc = "idle"
    /\ k_hit = FALSE

\* a run of the daily command calls get_cache_dir and download_archive_cached
\* (daily.rs lines 21-24)
CacheRunStart ==
    /\ k_pc \in {"idle", "ok", "err"}
    /\ k_runs < MaxRuns
    /\ k_runs' = k_runs + 1
    /\ k_dir' \in CacheDirs
    /\ k_hit' = FALSE
    /\ k_pc' = "check"
    /\ UNCHANGED <<k_chunks, k_files, k_completed>>
    /\ UNCHANGED not_k_vars

\* daily.rs lines 75-79: the cached file exists, and its path is returned
CacheHit ==
    /\ k_pc = "check"
    /\ k_files[k_dir] # NULL
    /\ k_hit' = TRUE
    /\ k_pc' = "ok"
    /\ UNCHANGED <<k_chunks, k_files, k_completed, k_runs, k_dir>>
    /\ UNCHANGED not_k_vars

\* daily.rs lines 81-82 and download.rs lines 37-55: no cached file; the
\* request fails, or its status is not a success, or File::create fails, or
\* the file is created empty
CacheRequest ==
    /\ k_pc = "check"
    /\ k_files[k_dir] = NULL
    /\ \/ k_pc' = "err" /\ UNCHANGED k_files
       \/ k_pc' = "stream" /\ k_files' = [k_files EXCEPT ![k_dir] = Some(0)]
    /\ UNCHANGED <<k_chunks, k_completed, k_runs, k_dir, k_hit>>
    /\ UNCHANGED not_k_vars

\* download.rs lines 60-65: the next chunk of the stream is written, or the
\* stream or the write fails and the error is returned
CacheChunk ==
    /\ k_pc = "stream"
    /\ k_files[k_dir].some < k_chunks
    /\ \/ k_files' = [k_files EXCEPT ![k_dir] = Some(@.some + 1)] /\ UNCHANGED k_pc
       \/ k_pc' = "err" /\ UNCHANGED k_files
    /\ UNCHANGED <<k_chunks, k_completed, k_runs, k_dir, k_hit>>
    /\ UNCHANGED not_k_vars

\* download.rs line 67 and daily.rs lines 83-85: the stream has ended; Ok
CacheDownloaded ==
    /\ k_pc = "stream"
    /\ k_files[k_dir].some = k_chunks
    /\ k_completed' = [k_completed EXCEPT ![k_dir] = TRUE]
    /\ k_pc' = "ok"
    /\ UNCHANGED <<k_chunks, k_files, k_runs, k_dir, k_hit>>
    /\ UNCHANGED not_k_vars

CacheNext == CacheRunStart \/ CacheHit \/ CacheRequest \/ CacheChunk \/ CacheDownloaded

\* ------------------------------------------------------------------------
\* Claims about the cached archive
\* ------------------------------------------------------------------------
\* C30 (as claimed): in every run of the daily command, when
\* download_archive_cached returns the cached path without downloading, the
\* file holds the complete archive and a download into that directory finished
\* successfully in an earlier run; a download that returned an error has left
\* no file that a later run takes from the cache.
C30_CacheHitIsComplete ==
    (k_pc = "ok" /\ k_hit) =>
        /\ k_files[k_dir] = Some(k_chunks)
        /\ k_completed[k_dir]

\* ------------------------------------------------------------------------
\* Claims about both writers
\* ------------------------------------------------------------------------

\* C12: in save_daily and save_monthly, once creating the output file or
\* appending a batch has failed the operation is in its error return and
\* nowhere else (so it never reports success), and no step after the failure
\* appends a batch.
C12_FailureIsFatal ==
    /\ [](d_failed => d_pc = "error")
    /\ [](m_failed => m_pc = "error")
    /\ [][d_failed => d_file' = d_file]_vars
    /\ [][m_failed => m_file' = m_file]_vars

\* save_monthly has returned the error of an append that failed after an
\* earlier batch was appended and while rows were still to be written
C12_Witness ==
    /\ m_failed
    /\ m_pc = "error"
    /\ Len(m_file) >= 1
    /\ m_rows_processed < m_total_rows

\* ------------------------------------------------------------------------
\* Specifications: one per part; the other parts stay idle
\* ------------------------------------------------------------------------
DailyIdle ==
    /\ d_readings = <<>> /\ d_pc = "idle" /\ d_i = 1 /\ d_day_index = 0
    /\ d_builders = EmptyBuilders /\ d_current_batch_rows = 0 /\ d_progress_counter = 0
    /\ d_total_actual_rows = 0 /\ d_file = <<>> /\ d_appended = <<>> /\ d_failed = FALSE

MonthlyIdle ==
    /\ m_readings = <<>> /\ m_pc = "idle" /\ m_total_rows = 0 /\ m_rows_processed = 0
    /\ m_batch_size = 0 /\ m_rows_in_batch = 0 /\ m_cols = EmptyColumns /\ m_r = 0
    /\ m_month = 1 /\ m_file = <<>> /\ m_failed = FALSE

DeserIdle ==
    /\ s_dir_ok = TRUE /\ s_files = <<>> /\ s_pc = "idle" /\ s_task = <<>> /\ s_lock = 0
    /\ s_progress = 0 /\ s_reported = 0 /\ s_readings = <<>>

DecodeIdle == f_frame = "idle" /\ f_line = <<>> /\ f_props = NoProps /\ f_result = NULL

CacheIdle ==
    /\ k_chunks = 0 /\ k_files = <<>> /\ k_completed = <<>> /\ k_runs = 0
    /\ k_dir = "idle" /\ k_pc = "unused" /\ k_hit = FALSE

PropsIdle == p_def = "idle" /\ p_parts = <<>> /\ p_file_name = <<>> /\ p_result = NULL

ExtractIdle ==
    g_mode = "idle" /\ g_file = MkFile(FALSE, <<>>) /\ g_pc = "idle" /\ g_stations = <<>>

CoordsIdle ==
    /\ c_frame = "idle" /\ c_stations = <<>> /\ c_readings = <<>> /\ c_pc = "idle"
    /\ c_lookup = EmptyMap /\ c_out = <<>>

InitDaily == DailyInit /\ MonthlyIdle /\ DecodeIdle /\ DeserIdle /\ CoordsIdle /\ ExtractIdle /\ PropsIdle /\ CacheIdle
SpecDaily == InitDaily /\ [][DailyNext]_vars

InitMonthly == MonthlyInit /\ DailyIdle /\ DecodeIdle /\ DeserIdle /\ CoordsIdle /\ ExtractIdle /\ PropsIdle /\ CacheIdle
SpecMonthly == InitMonthly /\ [][MonthlyNext]_vars

InitDecode == DecodeInit /\ DailyIdle /\ MonthlyIdle /\ DeserIdle /\ CoordsIdle /\ ExtractIdle /\ PropsIdle /\ CacheIdle
SpecDecode == InitDecode /\ [][DecodeNext]_vars

InitDeser == DeserInit /\ DailyIdle /\ MonthlyIdle /\ DecodeIdle /\ CoordsIdle /\ ExtractIdle /\ PropsIdle /\ CacheIdle
SpecDeser == InitDeser /\ [][DeserNext]_vars

\* deserialise under the scheduling of the runtime: the future of deserialise
\* is polled whenever it can proceed, and so is every spawned task
TaskStep(t) == t \in Tasks /\ (TaskOpen(t) \/ TaskLine(t) \/ TaskLock(t) \/ TaskInc(t))
DeserFairness ==
    /\ WF_vars(DeserStart)
    /\ WF_vars(DeserJoin)
    /\ WF_vars(DeserFinish)
    /\ \A t \in 1..MaxFiles : WF_vars(TaskStep(t))
SpecDeserFair == InitDeser /\ [][DeserNext]_vars /\ DeserFairness

InitCoords == CoordsInit /\ DailyIdle /\ MonthlyIdle /\ DecodeIdle /\ DeserIdle /\ ExtractIdle /\ PropsIdle /\ CacheIdle
SpecCoords == InitCoords /\ [][CoordsNext]_vars

InitExtract ==
    ExtractInit /\ DailyIdle /\ MonthlyIdle /\ DecodeIdle /\ DeserIdle /\ CoordsIdle /\ PropsIdle /\ CacheIdle
SpecExtract == InitExtract /\ [][ExtractNext]_vars

InitProps ==
    PropsInit /\ DailyIdle /\ MonthlyIdle /\ DecodeIdle /\ DeserIdle /\ CoordsIdle /\ ExtractIdle /\ CacheIdle
SpecProps == InitProps /\ [][PropsNext]_vars

\* save_monthly is sequential code that keeps running until it returns
SpecMonthlyFair == InitMonthly /\ [][MonthlyNext]_vars /\ WF_vars(MonthlyNext)

InitCache ==
    /\ CacheInit /\ DailyIdle /\ MonthlyIdle /\ DecodeIdle /\ DeserIdle /\ CoordsIdle
    /\ ExtractIdle /\ PropsIdle
SpecCache == InitCache /\ [][CacheNext]_vars

\* either writer, on its own inputs
InitWriters == InitDaily \/ InitMonthly
WritersNext == DailyNext \/ MonthlyNext
SpecWriters == InitWriters /\ [][WritersNext]_vars

====
